---- MODULE Spec2Model ----
(***************************************************************************)
(* State-machine model of the Laravel backup tool (SmartPanelBackup).      *)
(*                                                                         *)
(*   main.go (src/unnamed/part_004)   main, performLocalBackups,           *)
(*                                    performRemoteBackups                 *)
(*   backup/ssh.go                    NewSSHBackup, initializeEnvironment, *)
(*                                    getSession, releaseSession, Close,   *)
(*                                    gatherSiteInfo, BackupRemoteSites,   *)
(*                                    runCommand                           *)
(*   backup/files.go, backup/db.go    BackupFiles, BackupDatabase          *)
(*                     (src/unnamed/part_002)                              *)
(*   config (src/unnamed/part_003)    ParseApacheConfig, findEnvFile       *)
(*                                                                         *)
(* Spec      the program: main runs the local backups (one goroutine per   *)
(*           site and artifact kind, one result channel), then, if         *)
(*           enabled, the sequential remote run over one SSH connection.   *)
(* FairLocal the local phase of Spec alone, with weak fairness of its      *)
(*           steps (the Go scheduler runs every runnable goroutine).       *)
(* SpecPool  the session pool of SSHBackup used by concurrent callers that *)
(*           follow the call pattern of gatherSiteInfo (getSession, one    *)
(*           command, releaseSession), then Close.                         *)
(* SpecProbe the capacity test of initializeEnvironment against endpoints  *)
(*           up to beyond its ceiling.                                     *)
(* SpecRotate  retention rotation (cleanOldBackups) of one artifact        *)
(*           directory.                                                    *)
(* SpecChange  BackupFiles with its change check (compareWithLastBackup)   *)
(*           run repeatedly on a site of one file while it is modified and *)
(*           time passes, in hosts of several time zones.                  *)
(* SpecDiscover  ParseApacheConfig and the parsing loop of gatherSiteInfo  *)
(*           on configuration texts.                                       *)
(* SpecEnv   findEnvFile on document roots and hosts with some .env files. *)
(* SpecSite  the site loop of BackupRemoteSites, stage by stage, with the   *)
(*           local directories and the authentication configuration.       *)
(* SpecDump  DBBackup.BackupDatabase run repeatedly on one site.           *)
(* SpecDelete  BackupFiles and its change check on a site of two files     *)
(*           that has no backup yet, while files are written and deleted.  *)
(* SpecPaths the file and database units of performLocalBackups, call by   *)
(*           call, on the paths under one backup root.                     *)
(***************************************************************************)
EXTENDS Integers, Sequences, FiniteSets, TLC

(***************************************************************************)
(* Bounds of the model.                                                    *)
(***************************************************************************)
\* Number of distinct server names the local Apache configuration may hold.
MaxSites == 2

\* Largest "small" channel limit of the remote endpoint that is enumerated.
MaxLimit == 3

SiteNames == 1..MaxSites

\* The sites (server name, document root pairs) the remote configuration may
\* hold.
RemoteSites == 1..MaxSites

Kinds == {"file", "database"}

Units == SiteNames \X Kinds

\* Callers of the session pool in SpecPool: one more than the largest
\* enumerated channel limit, so that the pool can be exhausted.
Callers == 1..(MaxLimit + 1)

\* On-demand sessions the callers of SpecPool may open in one run.
MaxFresh == 1

\* Calls of Close in one run of SpecPool.
MaxCloseCalls == 2

\* Entries one site's backup directory may hold, the modification times
\* they may carry, and the largest retention maximum enumerated.
MaxArtifacts == 3

MaxTime == 3

MaxKept == 2

\* The sizes a file of the source tree may have.
MaxSize == 2

\* The clock runs from 0 to MaxNow ticks, TicksPerSecond ticks to a second.
MaxNow == 2

TicksPerSecond == 2

\* Calls of BackupFiles for one site.
MaxRuns == 2

\* Longest configuration text, in directive lines.
MaxLines == 4

\* Deepest document root, in directories below /, and the largest number
\* of .env files on the host.
MaxDepth == 2

MaxEnvFiles == 2

\* for i := 0; i < 20; i++ in initializeEnvironment.
ProbeCeiling == 20

\* make(chan *ssh.Session, 10) and maxSessions: 10 in NewSSHBackup.
InitialMaxSessions == 10

VARIABLES
    \* ---- main / performLocalBackups (src/unnamed/part_004) ----
    mainPc,      \* position of the main goroutine
    lsites,      \* sites returned by ParseApacheConfig (map keys)
    ldb,         \* the sites whose .env gave all four database credentials
    spawned,     \* sites the for-range loop has already handled
    upc,         \* position of each unit goroutine
    ures,        \* error value each unit computed ("none" before it ran)
    wg,          \* counter of the sync.WaitGroup
    closerPc,    \* position of the goroutine that closes resultChan
    chanClosed,  \* resultChan has been closed
    recv,        \* number of results the range loop received, per unit
    \* ---- the remote endpoint ----
    limit,       \* concurrent session channels the endpoint tolerates
    \* ---- SSHBackup (src/backup/ssh.go) ----
    client,      \* sb.client: "none", "open" or "closed"
    handles,     \* every *ssh.Session created, by id: "open" (channel
                 \* open, no command started), "used" (its one command
                 \* has run and the channel is gone), "closed" (Close called)
    pool,        \* buffer of sb.sessionPool, oldest first
    poolCap,     \* capacity of sb.sessionPool
    maxSessions, \* sb.maxSessions
    \* ---- NewSSHBackup / initializeEnvironment ----
    initPc,      \* position in NewSSHBackup
    firstSess,   \* the session that runs mkdir (closed by defer)
    tests,       \* the sessions slice of the capacity test
    fillI,       \* loop counter of the pool-filling loop
    \* ---- callers of the pool (SpecPool) ----
    cpc,         \* position of each caller
    held,        \* the session each caller holds (0: none)
    fresh,       \* on-demand sessions opened by callers so far
    \* ---- Close ----
    closePc,     \* position in Close: "none", "drain", "done"
    closeCalls,  \* calls of Close so far
    \* ---- gatherSiteInfo / BackupRemoteSites (src/backup/ssh.go) ----
    rconf,       \* the configuration files `find` listed, each the sequence
                 \* of the sites (name, root pairs) it holds
    gIdx,        \* index of the configuration file being read
    gEntry,      \* index of the pair being handled in that file
    catOk,       \* the `cat` of the current file succeeded
    sess,        \* the session the remote run holds outside the pool (0: none)
    sitesMap,    \* sites found so far (keys of sitesMap)
    rvisited,    \* sites the loop of BackupRemoteSites has started on
    cur,         \* the site of the current iteration (0: none)
    routcome,    \* how each site's iteration ended
    disc,        \* the handle disciplines remote commands have run under
    \* ---- one site's backup directory and BackupManager's rotation ----
    rotDir,      \* the entries of the directory: name -> kind and mtime
    rotMax,      \* the configured maximum, per kind
    rotPc,       \* "idle", or "rotated" right after a cleanOldBackups call
    rotKind,     \* the kind the last cleanOldBackups call rotated
    rotBefore,   \* the directory as that call found it
    \* ---- FileBackup.BackupFiles / compareWithLastBackup (part_002) ----
    chZone,      \* offset of the host's time zone from UTC, in seconds
    chNow,       \* the clock, in ticks
    chTree,      \* the source tree: per file, present or not, size, mtime
    chStatus,    \* the site's backup directory: "missing", "unreadable",
                 \* "present"
    chEntries,   \* the entries of the site's backup directory
    chPc,        \* position in BackupFiles
    chLatest,    \* latestBackup of compareWithLastBackup (<<>>: none)
    chTemp,      \* the scratch directory temp_<n> exists
    chCmp,       \* what compareWithLastBackup returned last
    chRes,       \* what BackupFiles returned last
    chRuns,      \* calls of BackupFiles so far
    chClean,     \* the tree is as the last complete archive recorded it
    chNoPrior,   \* the running change check found no entry named
                 \* files_<timestamp>.tar.gz (or no directory)
    \* ---- site discovery: ParseApacheConfig (part_003), gatherSiteInfo ----
    dsText,      \* the lines of the configuration
    dsSplit,     \* remote: the lines up to here are the first file
    dsPc,        \* "idle" or "parsed"
    dsLocal,     \* the sites ParseApacheConfig returns for the text
    dsRemote,    \* the sites gatherSiteInfo returns for the text
    dsLocalCanon,  \* the same for the text in canonical letter case
    dsRemoteCanon,
    \* ---- findEnvFile (part_003) ----
    envRoot,     \* the document root, as path components
    envFiles,    \* the directories that hold a file .env
    envPc,       \* "idle" or "found"
    envFound,    \* the path findEnvFile returned (<<"none">>: error)
    \* ---- DBBackup.BackupDatabase (part_002) ----
    dbNow,       \* the clock, in ticks
    dbDir,       \* the dumps in the site's database directory
    dbPc,        \* position in BackupDatabase
    dbFailed,    \* the step of the running or last call that failed
    dbRes,       \* what BackupDatabase returned last
    dbRuns,      \* calls of BackupDatabase so far
    \* ---- the current iteration of the site loop of BackupRemoteSites ----
    stCfg,       \* SSHConfig: which of KeyPath and Password are set
    stLocal,     \* the artifacts below <BaseDir>/<ServerName>
    stChanged,   \* files of the document root modified in the last day
    stCreds,     \* the site's .env names a database and a user
    stPc,        \* position in the iteration
    stFiles,     \* the file archive: "none", "failed", "copied"
    stDump,      \* the dump: "none", "failed", "made", "copied"
    stExit,      \* exit status of mysqldump and of gzip in the pipeline
    stScp,       \* the credential the last scp invocation was given
    stOutcome,   \* how the iteration ended
    \* ---- the loop over the discovered sites ----
    stSite,      \* the site of the iteration: ServerName and DocumentRoot
    stSites,     \* the discovered sites the loop has still to visit
    stOther,     \* the artifacts below the directory of the other name
    stDone,      \* the iterations that are over
    \* ---- the backup root during one performLocalBackups ----
    pLayout,     \* where getDBBackupDir puts the dumps of a site
    pFs,         \* the paths that exist under the backup root
    pPc,         \* position of each unit in its backup function
    pTouched     \* per unit, the paths it has created, written or deleted

localVars == <<lsites, ldb, spawned, upc, ures, wg, closerPc, chanClosed, recv>>

endpointVars == <<limit>>

sbVars == <<client, handles, pool, poolCap, maxSessions>>

initVars == <<initPc, firstSess, tests, fillI>>

callerVars == <<cpc, held, fresh>>

closeVars == <<closePc, closeCalls>>

remoteVars == <<rconf, gIdx, gEntry, catOk, sess, sitesMap, rvisited, cur,
                routcome, disc>>

rotVars == <<rotDir, rotMax, rotPc, rotKind, rotBefore>>

chVars == <<chZone, chNow, chTree, chStatus, chEntries, chPc, chLatest, chTemp,
            chCmp, chRes, chRuns, chClean, chNoPrior>>

dsVars == <<dsText, dsSplit, dsPc, dsLocal, dsRemote, dsLocalCanon,
            dsRemoteCanon>>

envVars == <<envRoot, envFiles, envPc, envFound>>

dbVars == <<dbNow, dbDir, dbPc, dbFailed, dbRes, dbRuns>>

stVars == <<stCfg, stLocal, stChanged, stCreds, stPc, stFiles, stDump, stExit,
            stScp, stOutcome>>

loopVars == <<stSite, stSites, stOther, stDone>>

pathVars == <<pLayout, pFs, pPc, pTouched>>

stepVars == <<dbVars, stVars, loopVars, pathVars>>

\* The state of the specifications of single functions.
pureVars == <<rotVars, chVars, dsVars, envVars, stepVars>>

vars == <<mainPc, localVars, endpointVars, sbVars, initVars, callerVars,
          closeVars, remoteVars, pureVars>>

(***************************************************************************)
(* performLocalBackups                                                     *)
(***************************************************************************)
\* Values of the state of performLocalBackups before it runs and after it
\* has returned (its locals are out of scope).
LocalIdle ==
    /\ lsites = {}
    /\ ldb = {}
    /\ spawned = {}
    /\ upc = [u \in Units |-> "none"]
    /\ ures = [u \in Units |-> "none"]
    /\ wg = 0
    /\ closerPc = "none"
    /\ chanClosed = FALSE
    /\ recv = [u \in Units |-> 0]

ArtifactKinds == {"files", "db"}

\* No backup directory is being looked at.
NoRotation ==
    /\ rotDir = <<>>
    /\ rotMax = [k \in ArtifactKinds |-> 1]
    /\ rotPc = "idle"
    /\ rotKind = "files"
    /\ rotBefore = <<>>

\* No change check is being looked at.
NoChange ==
    /\ chZone = 0
    /\ chNow = 0
    /\ chTree = <<>>
    /\ chStatus = "missing"
    /\ chEntries = {}
    /\ chPc = "idle"
    /\ chLatest = <<>>
    /\ chTemp = FALSE
    /\ chCmp = "none"
    /\ chRes = "none"
    /\ chRuns = 0
    /\ chClean = FALSE
    /\ chNoPrior = FALSE

\* No configuration text is being looked at.
NoDiscovery ==
    /\ dsText = <<>>
    /\ dsSplit = 0
    /\ dsPc = "idle"
    /\ dsLocal = {}
    /\ dsRemote = {}
    /\ dsLocalCanon = {}
    /\ dsRemoteCanon = {}

\* No document root is being looked at.
NoEnvSearch ==
    /\ envRoot = <<>>
    /\ envFiles = {}
    /\ envPc = "idle"
    /\ envFound = <<>>

\* No database dump is being looked at.
NoDump ==
    /\ dbNow = 0
    /\ dbDir = {}
    /\ dbPc = "idle"
    /\ dbFailed = "none"
    /\ dbRes = "none"
    /\ dbRuns = 0

\* No iteration of the remote site loop is being looked at.
NoSite ==
    /\ stCfg = <<>>
    /\ stLocal = {}
    /\ stChanged = 0
    /\ stCreds = FALSE
    /\ stPc = "idle"
    /\ stFiles = "none"
    /\ stDump = "none"
    /\ stExit = <<>>
    /\ stScp = "none"
    /\ stOutcome = "none"
    /\ stSite = <<>>
    /\ stSites = {}
    /\ stOther = {}
    /\ stDone = {}

\* No backup root is being looked at.
NoPaths ==
    /\ pLayout = "site"
    /\ pFs = {}
    /\ pPc = <<>>
    /\ pTouched = <<>>

NoSteps == NoDump /\ NoSite /\ NoPaths

\* The specifications of single functions are at rest.
NoPure == NoRotation /\ NoChange /\ NoDiscovery /\ NoEnvSearch /\ NoSteps

\* config.ParseApacheConfig and backup.NewBackupManager at the head of
\* performLocalBackups: either fails (performLocalBackups returns the error
\* and main goes on), or the configuration yields a map from server names to
\* document roots; ParseLaravelEnv then gives credentials for some of them.
ParseApacheConfig ==
    /\ mainPc = "parse"
    /\ \/ /\ mainPc' = "remoteEnabled"
          /\ UNCHANGED localVars
       \/ \E S \in SUBSET SiteNames : \E D \in SUBSET S :
            /\ lsites' = S
            /\ ldb' = D
            /\ mainPc' = "loop"
            /\ UNCHANGED <<spawned, upc, ures, wg, closerPc, chanClosed, recv>>
    /\ UNCHANGED <<endpointVars, sbVars, initVars, callerVars, closeVars, remoteVars, pureVars>>

\* Variant: the WaitGroup counts the file unit only (no wg.Add(1) before the
\* database goroutine).
UnitsStarted_FileOnly(s) == 1

\* wg.Add(1) before each go statement: the units one site starts.
UnitsStarted(s) == IF s \in ldb THEN 2 ELSE 1

\* One iteration of `for serverName, documentRoot := range sites`: the file
\* goroutine is started, and the database goroutine when all four
\* credentials are non-empty.  Go iterates a map in no fixed order.
SpawnSite(s) ==
    /\ mainPc = "loop"
    /\ s \in lsites \ spawned
    /\ spawned' = spawned \cup {s}
    /\ wg' = wg + UnitsStarted(s)
    /\ upc' = [u \in Units |->
                 IF u = <<s, "file">> THEN "run"
                 ELSE IF u = <<s, "database">> /\ s \in ldb THEN "run"
                 ELSE upc[u]]
    /\ UNCHANGED <<mainPc, lsites, ldb, ures, closerPc, chanClosed, recv>>
    /\ UNCHANGED <<endpointVars, sbVars, initVars, callerVars, closeVars, remoteVars, pureVars>>

\* The loop is over: the closing goroutine is started and main enters
\* `for result := range resultChan`.
StartCloser ==
    /\ mainPc = "loop"
    /\ spawned = lsites
    /\ mainPc' = "range"
    /\ closerPc' = "wait"
    /\ UNCHANGED <<lsites, ldb, spawned, upc, ures, wg, chanClosed, recv>>
    /\ UNCHANGED <<endpointVars, sbVars, initVars, callerVars, closeVars, remoteVars, pureVars>>

\* The error values BackupFiles can return: nil (archive created, or the
\* site skipped as unchanged) or an error of one of its stages (change
\* check, directory creation, archive creation, rotation).
BackupFilesResults == {"nil", "err"}

\* The error values BackupDatabase can return: nil or an error of one of its
\* stages (directory creation, file creation, gzip, mysqldump, rotation).
BackupDatabaseResults == {"nil", "err"}

\* A unit goroutine runs its backup function to completion; it then blocks in
\* `resultChan <- BackupResult{...}`.
RunUnit(u) ==
    /\ upc[u] = "run"
    /\ \E r \in (IF u[2] = "file" THEN BackupFilesResults
                                  ELSE BackupDatabaseResults) :
          ures' = [ures EXCEPT ![u] = r]
    /\ upc' = [upc EXCEPT ![u] = "send"]
    /\ UNCHANGED <<mainPc, lsites, ldb, spawned, wg, closerPc, chanClosed, recv>>
    /\ UNCHANGED <<endpointVars, sbVars, initVars, callerVars, closeVars, remoteVars, pureVars>>

\* resultChan is unbuffered: a send completes together with a receive of the
\* range loop in main.
SendResult(u) ==
    /\ upc[u] = "send"
    /\ mainPc = "range"
    /\ ~chanClosed
    /\ recv' = [recv EXCEPT ![u] = recv[u] + 1]
    /\ upc' = [upc EXCEPT ![u] = "sent"]
    /\ UNCHANGED <<mainPc, lsites, ldb, spawned, ures, wg, closerPc, chanClosed>>
    /\ UNCHANGED <<endpointVars, sbVars, initVars, callerVars, closeVars, remoteVars, pureVars>>

\* defer wg.Done() of a unit goroutine, run when its function returns.
UnitDone(u) ==
    /\ upc[u] = "sent"
    /\ upc' = [upc EXCEPT ![u] = "done"]
    /\ wg' = wg - 1
    /\ UNCHANGED <<mainPc, lsites, ldb, spawned, ures, closerPc, chanClosed, recv>>
    /\ UNCHANGED <<endpointVars, sbVars, initVars, callerVars, closeVars, remoteVars, pureVars>>

\* Variant: the closing goroutine does not wait for the units.
WaitReturns_NoWait == TRUE

\* wg.Wait() returns when the counter is zero.
WaitReturns == wg = 0

\* go func() { wg.Wait(); close(resultChan) }()
CloseResultChan ==
    /\ closerPc = "wait"
    /\ WaitReturns
    /\ chanClosed' = TRUE
    /\ closerPc' = "done"
    /\ UNCHANGED <<mainPc, lsites, ldb, spawned, upc, ures, wg, recv>>
    /\ UNCHANGED <<endpointVars, sbVars, initVars, callerVars, closeVars, remoteVars, pureVars>>

\* The range loop ends when the channel is closed (and, being unbuffered,
\* empty); main prints the sites found.
RangeEnds ==
    /\ mainPc = "range"
    /\ chanClosed
    /\ mainPc' = "report"
    /\ UNCHANGED localVars
    /\ UNCHANGED <<endpointVars, sbVars, initVars, callerVars, closeVars, remoteVars, pureVars>>

\* performLocalBackups returns nil; its locals go out of scope.
LocalReturns ==
    /\ mainPc = "report"
    /\ mainPc' = "remoteEnabled"
    /\ lsites' = {}
    /\ ldb' = {}
    /\ spawned' = {}
    /\ upc' = [u \in Units |-> "none"]
    /\ ures' = [u \in Units |-> "none"]
    /\ wg' = 0
    /\ closerPc' = "none"
    /\ chanClosed' = FALSE
    /\ recv' = [u \in Units |-> 0]
    /\ UNCHANGED <<endpointVars, sbVars, initVars, callerVars, closeVars, remoteVars, pureVars>>

LocalNext ==
    \/ ParseApacheConfig
    \/ \E s \in SiteNames : SpawnSite(s)
    \/ StartCloser
    \/ \E u \in Units : RunUnit(u)
    \/ \E u \in Units : SendResult(u)
    \/ \E u \in Units : UnitDone(u)
    \/ CloseResultChan
    \/ RangeEnds
    \/ LocalReturns

(***************************************************************************)
(* The session pool of SSHBackup                                           *)
(***************************************************************************)
\* The state of the SSHBackup fields before NewSSHBackup has run.
NoSSHBackup ==
    /\ limit = 0
    /\ client = "none"
    /\ handles = <<>>
    /\ pool = <<>>
    /\ poolCap = 0
    /\ maxSessions = 0
    /\ firstSess = 0
    /\ tests = <<>>
    /\ fillI = 0
    /\ cpc = [k \in Callers |-> "idle"]
    /\ held = [k \in Callers |-> 0]
    /\ fresh = 0
    /\ closePc = "none"
    /\ closeCalls = 0
    /\ rconf = <<>>
    /\ gIdx = 0
    /\ gEntry = 0
    /\ catOk = FALSE
    /\ sess = 0
    /\ sitesMap = {}
    /\ rvisited = {}
    /\ cur = 0
    /\ routcome = [s \in RemoteSites |-> "none"]
    /\ disc = {}

\* The channels the endpoint counts against its limit.  A session occupies
\* one from NewSession until it is closed or its command has run: the peer
\* closes the channel of a command that has exited (RFC 4254, 6.10), and
\* Session.Run, Wait and CombinedOutput of golang.org/x/crypto/ssh return
\* only after that close has arrived.
Occupies(st) == st = "open"

\* Every session the program opens is recorded in handles: the first
\* session and the test sessions of initializeEnvironment, the pooled ones,
\* those getSession opens on an empty pool, and those runCommand, the change
\* check and the .env read open on demand.
ChannelsOpen == Cardinality({id \in DOMAIN handles : Occupies(handles[id])})

\* What the endpoint answers to sb.client.NewSession(): the channel is
\* opened when the connection is up and the endpoint carries fewer channels
\* than it tolerates, else the call returns an error.  This is the remote
\* side, not the program: the program decides when it calls NewSession.
CanOpen == client = "open" /\ ChannelsOpen < limit

\* The id of the session NewSession creates.
NewId == Len(handles) + 1

\* The discipline of the first session of initializeEnvironment: opened
\* with NewSession, one command, closed by defer.
InitDiscipline == "useOnce"

\* ssh.Dial in NewSSHBackup fails (also: the key cannot be read or parsed,
\* NewBackupManager fails): NewSSHBackup returns nil and an error.
DialFails ==
    /\ initPc = "new"
    /\ initPc' = "noClient"
    /\ UNCHANGED <<mainPc, localVars, endpointVars, sbVars, firstSess, tests,
                   fillI, callerVars, closeVars, remoteVars, pureVars>>

\* ssh.Dial succeeds against an endpoint with channel limit c; the SSHBackup
\* is built with a pool of capacity 10 and maxSessions 10.
Dial(Limits) ==
    /\ initPc = "new"
    /\ \E c \in Limits : limit' = c
    /\ client' = "open"
    /\ poolCap' = InitialMaxSessions
    /\ maxSessions' = InitialMaxSessions
    /\ initPc' = "first"
    /\ UNCHANGED <<mainPc, localVars, handles, pool, firstSess, tests, fillI,
                   callerVars, closeVars, remoteVars, pureVars>>

\* initializeEnvironment: session, err := sb.client.NewSession().  On an
\* error it returns, and NewSSHBackup closes the client and returns nil.
InitFirstSession ==
    /\ initPc = "first"
    /\ IF CanOpen
       THEN /\ handles' = Append(handles, "open")
            /\ firstSess' = NewId
            /\ initPc' = "mkdir"
            /\ UNCHANGED client
       ELSE /\ client' = "closed"
            /\ initPc' = "envFailed"
            /\ UNCHANGED <<handles, firstSess>>
    /\ UNCHANGED <<mainPc, localVars, endpointVars, pool, poolCap, maxSessions,
                   tests, fillI, callerVars, closeVars, remoteVars, pureVars>>

\* session.Run("mkdir -p ~/laravel-backup-temp"): the command runs on the
\* first session; when it fails, the deferred session.Close() runs and
\* NewSSHBackup closes the client.
InitMkdir ==
    /\ initPc = "mkdir"
    /\ \/ /\ handles' = [handles EXCEPT ![firstSess] = "used"]
          /\ initPc' = "probe"
          /\ UNCHANGED client
       \/ /\ handles' = [handles EXCEPT ![firstSess] = "closed"]
          /\ client' = "closed"
          /\ initPc' = "envFailed"
    /\ disc' = disc \cup {InitDiscipline}
    /\ UNCHANGED <<mainPc, localVars, endpointVars, pool, poolCap, maxSessions,
                   firstSess, tests, fillI, callerVars, closeVars, rconf, gIdx,
                   gEntry, catOk, sess, sitesMap, rvisited, cur, routcome,
                   pureVars>>

\* What the capacity test records when a NewSession fails:
\* sb.maxSessions = len(sessions).
ProbedMaxSessions == Len(tests)

\* One iteration of `for i := 0; i < 20; i++`: a further test session is
\* opened and appended; at the first failure maxSessions is set and the loop
\* is left.  After 20 successes the loop ends and maxSessions is not
\* assigned.
InitProbe ==
    /\ initPc = "probe"
    /\ IF Len(tests) < ProbeCeiling
       THEN IF CanOpen
            THEN /\ handles' = Append(handles, "open")
                 /\ tests' = Append(tests, NewId)
                 /\ UNCHANGED <<maxSessions, initPc>>
            ELSE /\ maxSessions' = ProbedMaxSessions
                 /\ initPc' = "closeTests"
                 /\ UNCHANGED <<handles, tests>>
       ELSE /\ initPc' = "closeTests"
            /\ UNCHANGED <<handles, tests, maxSessions>>
    /\ UNCHANGED <<mainPc, localVars, endpointVars, client, pool, poolCap,
                   firstSess, fillI, callerVars, closeVars, remoteVars, pureVars>>

\* Variant: the test sessions are left open when the pool is recreated.
InitCloseTests_LeavesOpen ==
    /\ initPc = "closeTests"
    /\ tests' = <<>>
    /\ pool' = <<>>
    /\ poolCap' = maxSessions
    /\ fillI' = 0
    /\ initPc' = "fill"
    /\ UNCHANGED <<mainPc, localVars, endpointVars, client, handles,
                   maxSessions, firstSess, callerVars, closeVars, remoteVars,
                   pureVars>>

\* The test sessions are closed and the pool is recreated:
\* sb.sessionPool = make(chan *ssh.Session, sb.maxSessions).
InitCloseTests ==
    /\ initPc = "closeTests"
    /\ handles' = [id \in DOMAIN handles |->
                     IF \E j \in DOMAIN tests : tests[j] = id
                     THEN "closed" ELSE handles[id]]
    /\ tests' = <<>>
    /\ pool' = <<>>
    /\ poolCap' = maxSessions
    /\ fillI' = 0
    /\ initPc' = "fill"
    /\ UNCHANGED <<mainPc, localVars, endpointVars, client, maxSessions,
                   firstSess, callerVars, closeVars, remoteVars, pureVars>>

\* One iteration of `for i := 0; i < sb.maxSessions; i++`: a session is
\* opened and sent into the pool; a NewSession error is skipped (continue).
InitFill ==
    /\ initPc = "fill"
    /\ fillI < maxSessions
    /\ IF CanOpen
       THEN /\ handles' = Append(handles, "open")
            /\ pool' = Append(pool, NewId)
       ELSE UNCHANGED <<handles, pool>>
    /\ fillI' = fillI + 1
    /\ UNCHANGED <<mainPc, localVars, endpointVars, client, poolCap,
                   maxSessions, initPc, firstSess, tests, callerVars, closeVars, remoteVars, pureVars>>

\* initializeEnvironment returns nil: the deferred session.Close() of the
\* first session runs, and NewSSHBackup returns the SSHBackup.
InitReturns ==
    /\ initPc = "fill"
    /\ fillI = maxSessions
    /\ handles' = [handles EXCEPT ![firstSess] = "closed"]
    /\ initPc' = "ready"
    /\ UNCHANGED <<mainPc, localVars, endpointVars, client, pool, poolCap,
                   maxSessions, firstSess, tests, fillI, callerVars, closeVars, remoteVars, pureVars>>

NewSSHBackup(Limits) ==
    \/ DialFails
    \/ Dial(Limits)
    \/ InitFirstSession
    \/ InitMkdir
    \/ InitProbe
    \/ InitCloseTests
    \/ InitFill
    \/ InitReturns

\* Variant: getSession hands out the oldest pooled session and leaves it in
\* the pool.
getSession_Peek ==
    IF pool # <<>>
    THEN [err |-> FALSE, id |-> Head(pool), pool |-> pool,
          handles |-> handles, opened |-> FALSE]
    ELSE IF CanOpen
         THEN [err |-> FALSE, id |-> NewId, pool |-> pool,
               handles |-> Append(handles, "open"), opened |-> TRUE]
         ELSE [err |-> TRUE, id |-> 0, pool |-> pool,
               handles |-> handles, opened |-> FALSE]

\* getSession: `select { case session := <-sb.sessionPool: ...; default:
\* return sb.client.NewSession() }`.  The outcome as a record: the session
\* handed out (0 with an error), and the pool and the sessions afterwards.
getSession ==
    IF pool # <<>>
    THEN [err |-> FALSE, id |-> Head(pool), pool |-> Tail(pool),
          handles |-> handles, opened |-> FALSE]
    ELSE IF CanOpen
         THEN [err |-> FALSE, id |-> NewId, pool |-> pool,
               handles |-> Append(handles, "open"), opened |-> TRUE]
         ELSE [err |-> TRUE, id |-> 0, pool |-> pool,
               handles |-> handles, opened |-> FALSE]

\* session.CombinedOutput(cmd): an ssh.Session runs one command; on a
\* session whose command has already been started, or that is closed, the
\* call returns an error and nothing runs.
CanRun(id) == handles[id] = "open"

AfterRun(id) ==
    IF CanRun(id) THEN [handles EXCEPT ![id] = "used"] ELSE handles

\* Variant: the send into the pool succeeds on a full buffer too.
PoolHasRoom_OffByOne == Len(pool) <= poolCap

\* releaseSession: `select { case sb.sessionPool <- session: ; default:
\* session.Close() }`: the send succeeds when the buffer has room.
PoolHasRoom == Len(pool) < poolCap

releaseSession(id) ==
    IF id = 0
    THEN [pool |-> pool, handles |-> handles]
    ELSE IF PoolHasRoom
         THEN [pool |-> Append(pool, id), handles |-> handles]
         ELSE [pool |-> pool, handles |-> [handles EXCEPT ![id] = "closed"]]

\* A caller calls getSession, as gatherSiteInfo does before each of its
\* commands; on an error it gives the command up.
CallerGet(k) ==
    /\ initPc = "ready"
    /\ closePc = "none"
    /\ cpc[k] = "idle"
    /\ LET r == getSession IN
         /\ r.opened => fresh < MaxFresh
         /\ pool' = r.pool
         /\ handles' = r.handles
         /\ held' = [held EXCEPT ![k] = r.id]
         /\ cpc' = [cpc EXCEPT ![k] = IF r.err THEN "err" ELSE "got"]
         /\ fresh' = IF r.opened THEN fresh + 1 ELSE fresh
    /\ UNCHANGED <<mainPc, localVars, endpointVars, client, poolCap,
                   maxSessions, initVars, closeVars, remoteVars, pureVars>>

\* The caller that got an error goes on without a session (`continue`).
CallerGivesUp(k) ==
    /\ cpc[k] = "err"
    /\ cpc' = [cpc EXCEPT ![k] = "idle"]
    /\ UNCHANGED <<mainPc, localVars, endpointVars, sbVars, initVars, held,
                   fresh, closeVars, remoteVars, pureVars>>

\* The caller runs its command: session.CombinedOutput(...).
CallerRun(k) ==
    /\ cpc[k] = "got"
    /\ handles' = AfterRun(held[k])
    /\ cpc' = [cpc EXCEPT ![k] = "ran"]
    /\ UNCHANGED <<mainPc, localVars, endpointVars, client, pool, poolCap,
                   maxSessions, initVars, held, fresh, closeVars, remoteVars, pureVars>>

\* The caller gives the session back: sb.releaseSession(session).
CallerRelease(k) ==
    /\ cpc[k] = "ran"
    /\ LET r == releaseSession(held[k]) IN
         /\ pool' = r.pool
         /\ handles' = r.handles
    /\ held' = [held EXCEPT ![k] = 0]
    /\ cpc' = [cpc EXCEPT ![k] = "idle"]
    /\ UNCHANGED <<mainPc, localVars, endpointVars, client, poolCap,
                   maxSessions, initVars, fresh, closeVars, remoteVars, pureVars>>

\* Close is called on the SSHBackup NewSSHBackup returned (it returns none
\* when initializeEnvironment failed), after the callers have returned; it
\* may be called again.
CloseCalled ==
    /\ initPc = "ready"
    /\ closePc \in {"none", "done"}
    /\ closeCalls < MaxCloseCalls
    /\ \A k \in Callers : cpc[k] = "idle"
    /\ closePc' = "drain"
    /\ closeCalls' = closeCalls + 1
    /\ UNCHANGED <<mainPc, localVars, endpointVars, sbVars, initVars, callerVars,
                   remoteVars, pureVars>>

\* What Close does with the session it receives from the pool.
ClosedByClose(id) == [handles EXCEPT ![id] = "closed"]

\* One iteration of the loop of Close: a session is received from the pool
\* and closed.
CloseDrains ==
    /\ closePc = "drain"
    /\ pool # <<>>
    /\ handles' = ClosedByClose(Head(pool))
    /\ pool' = Tail(pool)
    /\ UNCHANGED <<mainPc, localVars, endpointVars, client, poolCap,
                   maxSessions, initVars, callerVars, closeVars, remoteVars, pureVars>>

\* Variant: Close takes the default case at once.
PoolDrained_Early == TRUE

\* The default case of the select in Close is taken when no session can be
\* received.
PoolDrained == pool = <<>>

\* default: return sb.client.Close()
CloseClient ==
    /\ closePc = "drain"
    /\ PoolDrained
    /\ client' = "closed"
    /\ closePc' = "done"
    /\ UNCHANGED <<mainPc, localVars, endpointVars, handles, pool, poolCap,
                   maxSessions, initVars, callerVars, closeCalls, remoteVars, pureVars>>

SmallLimits == 0..MaxLimit

PoolNext ==
    \/ NewSSHBackup(SmallLimits)
    \/ \E k \in Callers : CallerGet(k)
    \/ \E k \in Callers : CallerGivesUp(k)
    \/ \E k \in Callers : CallerRun(k)
    \/ \E k \in Callers : CallerRelease(k)
    \/ CloseCalled
    \/ CloseDrains
    \/ CloseClient

InitPool ==
    /\ mainPc = "pool"
    /\ LocalIdle
    /\ NoSSHBackup
    /\ NoPure
    /\ initPc = "new"

SpecPool == InitPool /\ [][PoolNext]_vars

\* Capacity probing alone, against every endpoint up to beyond the ceiling.
ProbeLimits == 0..(ProbeCeiling + 1)

ProbeNext == NewSSHBackup(ProbeLimits)

SpecProbe == InitPool /\ [][ProbeNext]_vars

(***************************************************************************)
(* performRemoteBackups, gatherSiteInfo, BackupRemoteSites                 *)
(***************************************************************************)
\* What the remote actions of main leave alone.
RemoteFrame == UNCHANGED <<localVars, endpointVars, initVars, callerVars, pureVars>>

\* main: REMOTE_BACKUP_ENABLED is not "true", or performRemoteBackups finds
\* the SSH configuration incomplete and returns an error.
RemoteDisabled ==
    /\ mainPc = "remoteEnabled"
    /\ mainPc' = "exit"
    /\ UNCHANGED <<sbVars, closeVars, remoteVars, pureVars>>
    /\ RemoteFrame

\* performRemoteBackups calls backup.NewSSHBackup(sshConfig).
RemoteStarts ==
    /\ mainPc = "remoteEnabled"
    /\ mainPc' = "newSSH"
    /\ initPc' = "new"
    /\ UNCHANGED <<localVars, endpointVars, sbVars, firstSess, tests, fillI,
                   callerVars, closeVars, remoteVars, pureVars>>

\* NewSSHBackup returned an error: performRemoteBackups returns it before
\* any defer is registered.
NewSSHBackupFailed ==
    /\ mainPc = "newSSH"
    /\ initPc \in {"noClient", "envFailed"}
    /\ mainPc' = "exit"
    /\ UNCHANGED <<sbVars, closeVars, remoteVars, pureVars>>
    /\ RemoteFrame

\* NewSSHBackup returned the SSHBackup: defer sshBackup.Close() is
\* registered and BackupRemoteSites calls gatherSiteInfo.
BackupRemoteSitesStarts ==
    /\ mainPc = "newSSH"
    /\ initPc = "ready"
    /\ mainPc' = "gFindGet"
    /\ UNCHANGED <<sbVars, closeVars, remoteVars, pureVars>>
    /\ RemoteFrame

\* The configuration files `find` can list: each holds the ServerName and
\* DocumentRoot pairs of some sites, one after the other.
ConfFiles ==
    {f \in UNION {[1..n -> RemoteSites] : n \in 0..MaxSites} :
        \A i, j \in DOMAIN f : i < j => f[i] < f[j]}

MaxConf == MaxSites

ConfLists == UNION {[1..n -> ConfFiles] : n \in 0..MaxConf}

\* session, err := sb.getSession() in gatherSiteInfo, for the command at
\* position okPc; the error case is the caller's.
GatherGets(okPc) ==
    LET r == getSession IN
      /\ ~r.err
      /\ pool' = r.pool
      /\ handles' = r.handles
      /\ sess' = r.id
      /\ mainPc' = okPc

\* sb.releaseSession(session) in gatherSiteInfo.
GatherReleases ==
    LET r == releaseSession(sess) IN
      /\ pool' = r.pool
      /\ handles' = r.handles
      /\ sess' = 0

\* The discipline a command of gatherSiteInfo runs under: its session comes
\* from getSession and goes back with releaseSession.
GatherDiscipline == "pooled"

\* The discipline of runCommand and of the change check: a fresh session,
\* closed after the command.
RunCommandDiscipline == "useOnce"

\* gatherSiteInfo: the session for the find command.  An error makes
\* gatherSiteInfo, and BackupRemoteSites, return it.
GatherFindGet ==
    /\ mainPc = "gFindGet"
    /\ \/ /\ GatherGets("gFindRun")
          /\ UNCHANGED <<client, poolCap, maxSessions>>
       \/ /\ getSession.err
          /\ mainPc' = "returnErr"
          /\ UNCHANGED <<sbVars, sess>>
    /\ UNCHANGED <<closeVars, rconf, gIdx, gEntry, catOk, sitesMap, rvisited,
                   cur, routcome, disc>>
    /\ RemoteFrame

\* session.CombinedOutput(findCmd): the output lists the configuration
\* files; when the command cannot run the output is empty (the error is only
\* warned about).
GatherFindRun ==
    /\ mainPc = "gFindRun"
    /\ handles' = AfterRun(sess)
    /\ IF CanRun(sess)
       THEN /\ \E c \in ConfLists : rconf' = c
            /\ disc' = disc \cup {GatherDiscipline}
       ELSE /\ rconf' = <<>>
            /\ UNCHANGED disc
    /\ mainPc' = "gFindRel"
    /\ UNCHANGED <<client, pool, poolCap, maxSessions, closeVars, gIdx, gEntry,
                   catOk, sess, sitesMap, rvisited, cur, routcome>>
    /\ RemoteFrame

GatherFindRelease ==
    /\ mainPc = "gFindRel"
    /\ GatherReleases
    /\ gIdx' = 1
    /\ mainPc' = "gFile"
    /\ UNCHANGED <<client, poolCap, maxSessions, closeVars, rconf, gEntry,
                   catOk, sitesMap, rvisited, cur, routcome, disc>>
    /\ RemoteFrame

\* for _, configFile := range configFiles: the session for `cat`; on an
\* error the file is skipped (continue).
GatherFileGet ==
    /\ mainPc = "gFile"
    /\ gIdx <= Len(rconf)
    /\ \/ /\ GatherGets("gCatRun")
          /\ UNCHANGED <<client, poolCap, maxSessions, gIdx>>
       \/ /\ getSession.err
          /\ gIdx' = gIdx + 1
          /\ UNCHANGED <<mainPc, sbVars, sess>>
    /\ UNCHANGED <<closeVars, rconf, gEntry, catOk, sitesMap, rvisited, cur,
                   routcome, disc>>
    /\ RemoteFrame

\* session.CombinedOutput("cat <file>"): fails when the session cannot run a
\* command, or when the command itself fails.
GatherCatRun ==
    /\ mainPc = "gCatRun"
    /\ handles' = AfterRun(sess)
    /\ IF CanRun(sess)
       THEN /\ catOk' \in BOOLEAN
            /\ disc' = disc \cup {GatherDiscipline}
       ELSE /\ catOk' = FALSE
            /\ UNCHANGED disc
    /\ mainPc' = "gCatRel"
    /\ UNCHANGED <<client, pool, poolCap, maxSessions, closeVars, rconf, gIdx,
                   gEntry, sess, sitesMap, rvisited, cur, routcome>>
    /\ RemoteFrame

\* The session is released; a file that was not read is skipped, a file
\* that was read is parsed.
GatherCatRelease ==
    /\ mainPc = "gCatRel"
    /\ GatherReleases
    /\ IF catOk
       THEN /\ gEntry' = 1
            /\ mainPc' = "gEntry"
            /\ UNCHANGED gIdx
       ELSE /\ gIdx' = gIdx + 1
            /\ mainPc' = "gFile"
            /\ UNCHANGED gEntry
    /\ UNCHANGED <<client, poolCap, maxSessions, closeVars, rconf, catOk,
                   sitesMap, rvisited, cur, routcome, disc>>
    /\ RemoteFrame

\* if _, exists := sitesMap[key]; !exists { sitesMap[key] = currentSite }
AddSite(s) == sitesMap \cup {s}

\* A DocumentRoot line paired with a ServerName: the session for the `cat`
\* of the .env file; when getSession fails the site is added without it.
GatherEnvGet ==
    /\ mainPc = "gEntry"
    /\ gEntry <= Len(rconf[gIdx])
    /\ \/ /\ GatherGets("gEnvRun")
          /\ UNCHANGED <<client, poolCap, maxSessions, gEntry, sitesMap>>
       \/ /\ getSession.err
          /\ sitesMap' = AddSite(rconf[gIdx][gEntry])
          /\ gEntry' = gEntry + 1
          /\ UNCHANGED <<mainPc, sbVars, sess>>
    /\ UNCHANGED <<closeVars, rconf, gIdx, catOk, rvisited, cur, routcome, disc>>
    /\ RemoteFrame

\* envSession.CombinedOutput("cat <root>/.env"); its error is ignored.
GatherEnvRun ==
    /\ mainPc = "gEnvRun"
    /\ handles' = AfterRun(sess)
    /\ disc' = IF CanRun(sess) THEN disc \cup {GatherDiscipline} ELSE disc
    /\ mainPc' = "gEnvRel"
    /\ UNCHANGED <<client, pool, poolCap, maxSessions, closeVars, rconf, gIdx,
                   gEntry, catOk, sess, sitesMap, rvisited, cur, routcome>>
    /\ RemoteFrame

\* The session is released and the site is added to sitesMap.
GatherEnvRelease ==
    /\ mainPc = "gEnvRel"
    /\ GatherReleases
    /\ sitesMap' = AddSite(rconf[gIdx][gEntry])
    /\ gEntry' = gEntry + 1
    /\ mainPc' = "gEntry"
    /\ UNCHANGED <<client, poolCap, maxSessions, closeVars, rconf, gIdx, catOk,
                   rvisited, cur, routcome, disc>>
    /\ RemoteFrame

\* The lines of the file are exhausted: the next file.
GatherNextFile ==
    /\ mainPc = "gEntry"
    /\ gEntry > Len(rconf[gIdx])
    /\ gIdx' = gIdx + 1
    /\ mainPc' = "gFile"
    /\ UNCHANGED <<sbVars, closeVars, rconf, gEntry, catOk, sess, sitesMap,
                   rvisited, cur, routcome, disc>>
    /\ RemoteFrame

\* The files are exhausted: gatherSiteInfo returns the sites.
GatherReturns ==
    /\ mainPc = "gFile"
    /\ gIdx > Len(rconf)
    /\ mainPc' = "clean"
    /\ UNCHANGED <<sbVars, closeVars, remoteVars, pureVars>>
    /\ RemoteFrame

\* A session opened on demand, in two steps.  First
\* session, err := sb.client.NewSession(): the endpoint opens the channel,
\* or it refuses and the caller does what it does on that error (refused).
\* Then session.CombinedOutput(cmd) and session.Close(): the command runs,
\* the session is closed and the caller goes on (ran).
OnDemandSession(refused, ran) ==
    \/ /\ sess = 0
       /\ IF CanOpen
          THEN /\ handles' = Append(handles, "open")
               /\ sess' = NewId
               /\ UNCHANGED <<mainPc, cur, routcome, disc>>
          ELSE /\ refused
               /\ UNCHANGED <<handles, sess, disc>>
    \/ /\ sess # 0
       /\ handles' = [handles EXCEPT ![sess] = "closed"]
       /\ sess' = 0
       /\ disc' = disc \cup {RunCommandDiscipline}
       /\ ran

\* runCommand: a fresh session is opened, the command runs, the session is
\* closed (defer).  It returns an error (failed) when the session cannot be
\* opened or the command fails, else nil (done).
runCommand(done, failed) == OnDemandSession(failed, done \/ failed)

\* What a step of a session opened on demand leaves alone.
OnDemandFrame ==
    /\ UNCHANGED <<client, pool, poolCap, maxSessions, closeVars, rconf, gIdx,
                   gEntry, catOk, sitesMap, rvisited>>
    /\ RemoteFrame

\* os.MkdirAll, scp (copyFileFromRemote): work on the local machine.
LocalOpResults == {"nil", "err"}

\* BackupRemoteSites: runCommand("rm -rf ~/laravel-backup-temp/* && mkdir
\* ..."); an error is returned to performRemoteBackups.
CleanTemp ==
    /\ mainPc = "clean"
    /\ runCommand(mainPc' = "siteLoop" /\ UNCHANGED <<cur, routcome>>,
                  mainPc' = "returnErr" /\ UNCHANGED <<cur, routcome>>)
    /\ OnDemandFrame

\* for _, site := range sites: the next site (the slice is built from a map,
\* in no fixed order).
SiteStarts(s) ==
    /\ mainPc = "siteLoop"
    /\ s \in sitesMap \ rvisited
    /\ rvisited' = rvisited \cup {s}
    /\ cur' = s
    /\ mainPc' = "sLocalDir"
    /\ UNCHANGED <<sbVars, closeVars, rconf, gIdx, gEntry, catOk, sess,
                   sitesMap, routcome, disc>>
    /\ RemoteFrame

\* The stage goes on to the next one.
StageTo(next) ==
    /\ mainPc' = next
    /\ UNCHANGED <<cur, routcome>>

\* `continue` (or the end of the loop body): the iteration of the current
\* site is over.
IterationEnds(how) ==
    /\ mainPc' = "siteLoop"
    /\ routcome' = [routcome EXCEPT ![cur] = how]
    /\ cur' = 0

\* Variant: an error of a stage makes BackupRemoteSites return it.
StageFails_Aborts ==
    /\ mainPc' = "returnErr"
    /\ routcome' = [routcome EXCEPT ![cur] = "failed"]
    /\ cur' = 0

\* What an error of a stage does to the loop: the error is printed and the
\* loop continues with the next site.
StageFails == IterationEnds("failed")

StageFrame ==
    /\ UNCHANGED <<sbVars, closeVars, rconf, gIdx, gEntry, catOk, sess,
                   sitesMap, rvisited>>
    /\ RemoteFrame

\* os.MkdirAll(localDir, 0755)
SiteLocalDir ==
    /\ mainPc = "sLocalDir"
    /\ \E r \in LocalOpResults :
          IF r = "nil" THEN StageTo("sToday") ELSE StageFails
    /\ UNCHANGED disc
    /\ StageFrame

\* hasBackupToday: an entry of localDir holds today's date; the site is
\* skipped.
SiteToday ==
    /\ mainPc = "sToday"
    /\ \/ StageTo("sChange")
       \/ IterationEnds("skipped")
    /\ UNCHANGED disc
    /\ StageFrame

\* The change check: sb.client.NewSession(), CombinedOutput(find ... | wc
\* -l), session.Close(), strconv.Atoi.  An error of any of them continues;
\* zero changed files skips the site.
SiteChangeCheck ==
    /\ mainPc = "sChange"
    /\ OnDemandSession(StageFails,
                       \/ StageTo("sRemoteDir")
                       \/ IterationEnds("skipped")
                       \/ StageFails)
    /\ OnDemandFrame

\* runCommand("mkdir -p <siteDir>")
SiteRemoteDir ==
    /\ mainPc = "sRemoteDir"
    /\ runCommand(StageTo("sTar"), StageFails)
    /\ OnDemandFrame

\* runCommand("cd <root> && tar ... -czf <siteDir>/files.tar.gz .")
SiteTar ==
    /\ mainPc = "sTar"
    /\ runCommand(StageTo("sCopyFiles"), StageFails)
    /\ OnDemandFrame

\* copyFileFromRemote(<siteDir>/files.tar.gz, localBackupPath)
SiteCopyFiles ==
    /\ mainPc = "sCopyFiles"
    /\ \E r \in LocalOpResults :
          IF r = "nil" THEN StageTo("sEnv") ELSE StageFails
    /\ UNCHANGED disc
    /\ StageFrame

\* The .env is read on a fresh session (an error of NewSession continues);
\* with a database name and user in it the dump follows, else the rotation.
SiteEnv ==
    /\ mainPc = "sEnv"
    /\ OnDemandSession(StageFails,
                       \/ StageTo("sDump")
                       \/ StageTo("sRotate"))
    /\ OnDemandFrame

\* runCommand("mysqldump ... | gzip > <siteDir>/db.sql.gz"): an error is
\* printed and the iteration goes on to the rotation.
SiteDump ==
    /\ mainPc = "sDump"
    /\ runCommand(StageTo("sCopyDb"), StageTo("sRotate"))
    /\ OnDemandFrame

\* copyFileFromRemote(<siteDir>/db.sql.gz, localDBPath): an error is printed.
SiteCopyDb ==
    /\ mainPc = "sCopyDb"
    /\ StageTo("sRotate")
    /\ UNCHANGED disc
    /\ StageFrame

\* cleanOldBackups for files and for dumps (errors are warnings), then
\* "Successfully backed up".
SiteRotate ==
    /\ mainPc = "sRotate"
    /\ IterationEnds("done")
    /\ UNCHANGED disc
    /\ StageFrame

\* The loop is over: runCommand("rm -rf ~/laravel-backup-temp/*"), whose
\* error is a warning; BackupRemoteSites returns nil.
FinalClean ==
    /\ mainPc = "siteLoop"
    /\ sitesMap \subseteq rvisited
    /\ runCommand(mainPc' = "returnNil" /\ UNCHANGED <<cur, routcome>>,
                  mainPc' = "warnClean" /\ UNCHANGED <<cur, routcome>>)
    /\ OnDemandFrame

\* Variant: the error of the final cleanup is returned.
AfterCleanWarning_Propagates == "returnErr"

\* Where BackupRemoteSites goes after "Warning: failed to clean remote temp
\* directory": to `return nil`.
AfterCleanWarning == "returnNil"

\* if err != nil { fmt.Printf("Warning: ...") } after the final cleanup.
FinalCleanWarns ==
    /\ mainPc = "warnClean"
    /\ mainPc' = AfterCleanWarning
    /\ UNCHANGED <<sbVars, closeVars, remoteVars, pureVars>>
    /\ RemoteFrame

\* BackupRemoteSites has returned (an error: "returnErr", nil: "returnNil")
\* and performRemoteBackups returns: the deferred sshBackup.Close() is
\* called.
DeferredClose ==
    /\ mainPc \in {"returnErr", "returnNil"}
    /\ mainPc' = "closing"
    /\ closePc' = "drain"
    /\ closeCalls' = closeCalls + 1
    /\ UNCHANGED <<sbVars, remoteVars, pureVars>>
    /\ RemoteFrame

\* Close has returned; main ends.
MainExits ==
    /\ mainPc = "closing"
    /\ closePc = "done"
    /\ mainPc' = "exit"
    /\ UNCHANGED <<sbVars, closeVars, remoteVars, pureVars>>
    /\ RemoteFrame

RemoteNext ==
    \/ RemoteDisabled
    \/ RemoteStarts
    \/ NewSSHBackup(SmallLimits)
    \/ NewSSHBackupFailed
    \/ BackupRemoteSitesStarts
    \/ GatherFindGet
    \/ GatherFindRun
    \/ GatherFindRelease
    \/ GatherFileGet
    \/ GatherCatRun
    \/ GatherCatRelease
    \/ GatherEnvGet
    \/ GatherEnvRun
    \/ GatherEnvRelease
    \/ GatherNextFile
    \/ GatherReturns
    \/ CleanTemp
    \/ \E s \in RemoteSites : SiteStarts(s)
    \/ SiteLocalDir
    \/ SiteToday
    \/ SiteChangeCheck
    \/ SiteRemoteDir
    \/ SiteTar
    \/ SiteCopyFiles
    \/ SiteEnv
    \/ SiteDump
    \/ SiteCopyDb
    \/ SiteRotate
    \/ FinalClean
    \/ FinalCleanWarns
    \/ DeferredClose
    \/ CloseDrains
    \/ CloseClient
    \/ MainExits

(***************************************************************************)
(* Retention rotation: BackupManager.cleanOldBackups                       *)
(***************************************************************************)
ArtifactNames == 1..MaxArtifacts

Times == 1..MaxTime

\* The directories: a set of names, each with the kind its name pattern
\* gives it (files_*.tar.gz or db_*.sql.gz) and its modification time.
Dirs ==
    UNION {[N -> [kind : ArtifactKinds, mtime : Times]] :
             N \in SUBSET ArtifactNames}

\* The names of the entries of directory d that match the pattern of kind k.
Matching(d, k) == {n \in DOMAIN d : d[n].kind = k}

\* Variant: the list is sorted by modification time, ascending.
Oldest(d, N) ==
    CHOOSE n \in N : \A m \in N :
        \/ d[n].mtime < d[m].mtime
        \/ (d[n].mtime = d[m].mtime /\ n <= m)

\* The entry of N that sorts first: the latest modification time and, among
\* equal times, the greatest name.
Newest(d, N) ==
    CHOOSE n \in N : \A m \in N :
        \/ d[n].mtime > d[m].mtime
        \/ (d[n].mtime = d[m].mtime /\ n >= m)

\* The entries N of d sorted by modification time, descending.
RECURSIVE SortByMtimeDesc(_, _)
SortByMtimeDesc(d, N) ==
    IF N = {} THEN <<>>
    ELSE LET n == Newest(d, N)
         IN <<n>> \o SortByMtimeDesc(d, N \ {n})

\* The entries a rotation with maximum k deletes: none when at most k match,
\* else every entry of the sorted list beyond the k-th.
ToDelete(d, kind, k) ==
    LET sorted == SortByMtimeDesc(d, Matching(d, kind))
    IN IF Len(sorted) <= k THEN {}
       ELSE {sorted[i] : i \in (k + 1)..Len(sorted)}

\* The directory after cleanOldBackups for the kind.
cleanOldBackups(d, kind, k) ==
    [n \in DOMAIN d \ ToDelete(d, kind, k) |-> d[n]]

RotFrame ==
    UNCHANGED <<mainPc, localVars, endpointVars, sbVars, initVars, callerVars,
                closeVars, remoteVars, chVars, dsVars, envVars,
                stepVars>>

\* manager.cleanOldBackups(siteName, isDB)
Rotate(kind) ==
    /\ rotBefore' = rotDir
    /\ rotKind' = kind
    /\ rotDir' = cleanOldBackups(rotDir, kind, rotMax[kind])
    /\ rotPc' = "rotated"
    /\ UNCHANGED rotMax
    /\ RotFrame

RotateNext == \E kind \in ArtifactKinds : Rotate(kind)

InitRotate ==
    /\ mainPc = "rotate"
    /\ LocalIdle
    /\ NoSSHBackup
    /\ initPc = "idle"
    /\ rotDir \in Dirs
    /\ rotMax \in [ArtifactKinds -> 1..MaxKept]
    /\ rotPc = "idle"
    /\ rotKind = "files"
    /\ rotBefore = <<>>
    /\ NoChange
    /\ NoDiscovery
    /\ NoEnvSearch
    /\ NoSteps

SpecRotate == InitRotate /\ [][RotateNext]_vars

(***************************************************************************)
(* FileBackup.BackupFiles and compareWithLastBackup                       *)
(***************************************************************************)
\* The regular files a source tree can hold that are not excluded.
Files == {"index.php", "style.css"}

\* A site whose tree holds one file at most.
OneFileSite == {"index.php"}

Sizes == 1..MaxSize

\* The offset of the host's zone from UTC, in seconds: west of UTC, UTC,
\* east of UTC.
Zones == {0 - 1, 0, 1}

\* A file that is not in the tree.
Absent == [present |-> FALSE, size |-> 1, mtime |-> 0]

\* time.Now().Format("2006-01-02_150405"): the wall clock of the host's
\* zone, cut to whole seconds.
Format(t, zone) == (t \div TicksPerSecond) + zone

\* time.Parse("2006-01-02_150405", timeStr): the layout names no zone, so
\* the wall clock is read as UTC.
Parse(stamp) == stamp * TicksPerSecond

\* The entries a site's backup directory may hold before the first backup:
\* a regular file files_<timestamp> (no .tar.gz), a regular file
\* files_<no timestamp>.tar.gz, a directory files_<timestamp>.tar.gz, and an
\* entry of another name.  An archive created by BackupFiles has the form
\* "archive"; snap is what it holds (per file the size, 0: not in it), made
\* the moment it was written, complete whether createArchive returned nil,
\* readable whether it is a well-formed tar.gz that can be read to its end.
ForeignEntries ==
    {[form |-> f, stamp |-> 0, made |-> 0, snap |-> [x \in Files |-> 0],
      complete |-> FALSE, readable |-> FALSE] :
        f \in {"noSuffix", "badStamp", "dirNamed", "other"}}

\* entry.IsDir() || !strings.HasPrefix(entry.Name(), "files_")
SkippedByName(e) == e.form = "dirNamed" \/ e.form = "other"

\* time.Parse of the name without the prefix files_ and, when it is there,
\* the suffix .tar.gz, succeeds.
StampParses(e) == e.form \in {"archive", "noSuffix", "dirNamed"}

Candidates(E) == {e \in E : ~SkippedByName(e) /\ StampParses(e)}

\* The loop over the entries (os.ReadDir sorts by name): the first entry
\* with the latest parsed time; files_<t> sorts before files_<t>.tar.gz.
LatestBackup(E) ==
    CHOOSE e \in Candidates(E) : \A x \in Candidates(E) :
        \/ e.stamp > x.stamp
        \/ (e.stamp = x.stamp /\ (e.form = "noSuffix" \/ x.form # "noSuffix"))

\* extractArchive can succeed on a well-formed archive, complete or cut
\* short between two entries; a file that is no gzip stream, a truncated
\* one, or a tar entry without its content makes it fail.
Extractable(e) == e.form = "archive" /\ e.readable

\* What createArchive writes: every file of the tree with its size.
Snapshot(tree) == [f \in Files |-> IF tree[f].present THEN tree[f].size ELSE 0]

\* The callback of filepath.Walk(sourceDir, ...): a path missing from the
\* extracted copy, a modification time after latestTime, or another size.
Changed(tree, snap, latestTime) ==
    \E f \in Files :
       /\ tree[f].present
       /\ \/ snap[f] = 0
          \/ tree[f].mtime > latestTime
          \/ tree[f].size # snap[f]

\* The entries named files_*.tar.gz, the ones rotation looks at.
MatchesFiles(e) == e.form \in {"archive", "badStamp"}

\* cleanOldBackups(siteName, false) on the entries: the k most recently
\* written of the matching ones stay.
RotatedEntries(E, k) ==
    {e \in E : ~MatchesFiles(e) \/
        Cardinality({x \in E : MatchesFiles(x) /\ x # e /\
                        (x.made > e.made \/
                          (x.made = e.made /\ x.stamp > e.stamp))}) < k}

ChFrame ==
    UNCHANGED <<mainPc, localVars, endpointVars, sbVars, initVars, callerVars,
                closeVars, remoteVars, rotVars, dsVars, envVars,
                stepVars>>

\* Time passes between two runs.
ChTick ==
    /\ chPc = "idle"
    /\ chNow < MaxNow
    /\ chNow' = chNow + 1
    /\ UNCHANGED <<chZone, chTree, chStatus, chEntries, chPc, chLatest, chTemp,
                   chCmp, chRes, chRuns, chClean, chNoPrior>>
    /\ ChFrame

\* Between two runs a file of the tree is written, created or deleted.
ChModify(f) ==
    /\ chPc = "idle"
    /\ \E sz \in Sizes, p \in BOOLEAN :
          /\ chTree' = [chTree EXCEPT ![f] =
                           IF p THEN [present |-> TRUE, size |-> sz,
                                      mtime |-> chNow]
                           ELSE Absent]
          /\ chTree' # chTree
    /\ chClean' = FALSE
    /\ UNCHANGED <<chZone, chNow, chStatus, chEntries, chPc, chLatest, chTemp,
                   chCmp, chRes, chRuns, chNoPrior>>
    /\ ChFrame

\* A compareWithLastBackup without the deferred removal.
TempAfterReturn_Kept == TRUE

\* defer os.RemoveAll(tempDir): whether the scratch directory is there
\* after compareWithLastBackup has returned.
TempAfterReturn == FALSE

\* compareWithLastBackup returns an error, and BackupFiles returns it.
ChCompareFails ==
    /\ chCmp' = "err"
    /\ chRes' = "err"
    /\ chPc' = "idle"

\* BackupFiles calls compareWithLastBackup: os.ReadDir, the search for the
\* latest backup, os.MkdirAll(tempDir).
ChReadDir ==
    /\ chPc = "idle"
    /\ chRuns < MaxRuns
    /\ chRuns' = chRuns + 1
    /\ chNoPrior' = \/ chStatus = "missing"
                    \/ /\ chStatus = "present"
                       /\ \A e \in chEntries : e.form \notin {"archive", "dirNamed"}
    /\ IF chStatus = "missing"
       THEN /\ chCmp' = "true"
            /\ chPc' = "decided"
            /\ UNCHANGED <<chRes, chLatest, chTemp>>
       ELSE IF chStatus = "unreadable"
       THEN ChCompareFails /\ UNCHANGED <<chLatest, chTemp>>
       ELSE IF Candidates(chEntries) = {}
       THEN /\ chCmp' = "true"
            /\ chPc' = "decided"
            /\ chLatest' = <<>>
            /\ UNCHANGED <<chRes, chTemp>>
       ELSE /\ chLatest' = <<LatestBackup(chEntries)>>
            /\ \/ /\ chTemp' = TRUE
                  /\ chPc' = "extract"
                  /\ UNCHANGED <<chCmp, chRes>>
               \/ ChCompareFails /\ UNCHANGED chTemp
    /\ UNCHANGED <<chZone, chNow, chTree, chStatus, chEntries, chClean>>
    /\ ChFrame

\* fb.extractArchive(latestBackupPath, tempDir)
ChExtract ==
    /\ chPc = "extract"
    /\ \/ /\ Extractable(chLatest[1])
          /\ chPc' = "walk"
          /\ UNCHANGED <<chCmp, chRes, chTemp>>
       \/ /\ ChCompareFails
          /\ chTemp' = TempAfterReturn
    /\ UNCHANGED <<chZone, chNow, chTree, chStatus, chEntries, chLatest, chRuns,
                   chClean, chNoPrior>>
    /\ ChFrame

\* filepath.Walk(sourceDir, ...) and the return of compareWithLastBackup.
ChWalk ==
    /\ chPc = "walk"
    /\ \/ /\ chCmp' = IF Changed(chTree, chLatest[1].snap,
                                 Parse(chLatest[1].stamp))
                      THEN "true" ELSE "false"
          /\ chPc' = "decided"
          /\ UNCHANGED chRes
       \/ ChCompareFails
    /\ chTemp' = TempAfterReturn
    /\ UNCHANGED <<chZone, chNow, chTree, chStatus, chEntries, chLatest, chRuns,
                   chClean, chNoPrior>>
    /\ ChFrame

\* The archive BackupFiles writes at files_<Format(now)>.tar.gz.
NewArchive(complete, readable) ==
    [form |-> "archive", stamp |-> Format(chNow, chZone), made |-> chNow,
     snap |-> Snapshot(chTree), complete |-> complete, readable |-> readable]

\* What createArchive leaves when it returns nil.  The tar footer, the last
\* deflate blocks and the gzip trailer are written by the deferred
\* tw.Close, gw.Close and file.Close, whose errors are dropped: when one of
\* them fails to write (disk full, quota, I/O error), or the last file
\* shrank while it was copied, createArchive still returns nil and the
\* archive cannot be read to its end.
CreatedArchives == {NewArchive(TRUE, r) : r \in BOOLEAN}

\* What a failing createArchive leaves at the final path.  When the walk
\* fails between two entries (an unreadable directory, tar.FileInfoHeader)
\* the deferred tw.Close, gw.Close and file.Close end the archive properly:
\* it is well-formed and holds the files written so far.  When the failure
\* is inside a file (os.Open or io.Copy after WriteHeader) tw.Close cannot
\* end the archive and what is left cannot be read to its end; so after a
\* kill of the process.
PartialArchives ==
    {[NewArchive(FALSE, TRUE) EXCEPT !.snap = sn] :
        sn \in {x \in [Files -> {0} \cup Sizes] :
                   \A f \in Files : x[f] \in {0, Snapshot(chTree)[f]}}}
      \cup {NewArchive(FALSE, FALSE)}

\* os.Create(targetFile) truncates a file of the same name; it fails on a
\* directory of that name.
SameName(e, a) == e.form \in {"archive", "dirNamed"} /\ e.stamp = a.stamp

WithArchive(E, a) == {e \in E : ~SameName(e, a)} \cup {a}

\* A BackupFiles that archives whatever the change check says.
SkipsBackup_Never(changed) == FALSE

\* if !changed { ...; return nil }
SkipsBackup(changed) == changed = "false"

\* The rest of BackupFiles after the change check: nothing when unchanged;
\* else os.MkdirAll(backupDir), createArchive (which creates the file at
\* its final path and then fills it; on a nil return the archive is there,
\* well-formed or not) and cleanOldBackups, whose error BackupFiles
\* returns.
ChDecided ==
    /\ chPc = "decided"
    /\ chPc' = "idle"
    /\ IF SkipsBackup(chCmp)
       THEN /\ chRes' = "skipped"
            /\ UNCHANGED <<chStatus, chEntries, chClean>>
       ELSE \/ /\ chRes' = "err"
               /\ UNCHANGED <<chStatus, chEntries, chClean>>
            \/ /\ chStatus' = "present"
               /\ \/ /\ chRes' = "err"
                     /\ UNCHANGED <<chEntries, chClean>>
                  \/ /\ \A e \in chEntries :
                          e.form = "dirNamed" => ~SameName(e, NewArchive(TRUE, TRUE))
                     /\ \/ /\ \E a \in PartialArchives :
                                chEntries' = WithArchive(chEntries, a)
                           /\ chRes' = "err"
                           /\ UNCHANGED chClean
                        \/ /\ chClean' = TRUE
                           /\ \E a \in CreatedArchives :
                                \/ /\ chEntries' =
                                        RotatedEntries(
                                          WithArchive(chEntries, a),
                                          rotMax["files"])
                                   /\ chRes' = "created"
                                \/ /\ chEntries' = WithArchive(chEntries, a)
                                   /\ chRes' = "err"
    /\ UNCHANGED <<chZone, chNow, chTree, chLatest, chTemp, chCmp, chRuns,
                   chNoPrior>>
    /\ ChFrame

ChangeNext ==
    \/ ChTick
    \/ \E f \in OneFileSite : ChModify(f)
    \/ ChReadDir
    \/ ChExtract
    \/ ChWalk
    \/ ChDecided

\* The trees of a site whose files are among F, before the first run.
Trees(F) ==
    {tr \in [Files -> {Absent} \cup
                       [present : {TRUE}, size : Sizes, mtime : {0}]] :
        \A f \in Files \ F : tr[f] = Absent}

\* A site and its backup directory before the first call of BackupFiles.
InitBackupFiles(trees, statuses) ==
    /\ mainPc = "change"
    /\ LocalIdle
    /\ NoSSHBackup
    /\ initPc = "idle"
    /\ rotDir = <<>>
    /\ \E k \in 1..MaxKept :
          rotMax = [x \in ArtifactKinds |-> IF x = "files" THEN k ELSE 1]
    /\ rotPc = "idle"
    /\ rotKind = "files"
    /\ rotBefore = <<>>
    /\ NoDiscovery
    /\ NoEnvSearch
    /\ NoSteps
    /\ chZone \in Zones
    /\ chNow = 0
    /\ chTree \in trees
    /\ chStatus \in statuses
    /\ chEntries \in {{}} \cup {{e} : e \in ForeignEntries}
    /\ chStatus # "present" => chEntries = {}
    /\ chPc = "idle"
    /\ chLatest = <<>>
    /\ chTemp = FALSE
    /\ chCmp = "none"
    /\ chRes = "none"
    /\ chRuns = 0
    /\ chClean = FALSE
    /\ chNoPrior = FALSE

InitChange ==
    InitBackupFiles(Trees(OneFileSite), {"missing", "unreadable", "present"})

SpecChange == InitChange /\ [][ChangeNext]_vars

\* The runs of BackupFiles for a site of several files that has no backup
\* directory yet; between the runs any of its files is written, created or
\* deleted.
DeleteNext ==
    \/ ChTick
    \/ \E f \in Files : ChModify(f)
    \/ ChReadDir
    \/ ChExtract
    \/ ChWalk
    \/ ChDecided

InitDelete ==
    InitBackupFiles({tr \in Trees(Files) : \A f \in Files : tr[f].present},
                    {"missing"})

SpecDelete == InitDelete /\ [][DeleteNext]_vars

(***************************************************************************)
(* Site discovery: config.ParseApacheConfig and SSHBackup.gatherSiteInfo   *)
(***************************************************************************)
\* A configuration text is a sequence of lines.  A line is a name
\* directive, a document-root directive (canon: spelled ServerName,
\* DocumentRoot; otherwise in another letter case, servername,
\* DOCUMENTROOT) or the end of a block, </VirtualHost>.
ServerNames == {"a.test", "b.test"}

DocumentRoots == {"/srv/a", "/srv/b"}

EndBlock == [dir |-> "EndBlock", canon |-> TRUE, val |-> ""]

ConfigLines ==
    [dir : {"ServerName"}, canon : BOOLEAN, val : ServerNames]
      \cup [dir : {"DocumentRoot"}, canon : BOOLEAN, val : DocumentRoots]
      \cup {EndBlock}

\* The same text with every directive spelled ServerName, DocumentRoot.
Canonical(text) == [i \in 1..Len(text) |-> [text[i] EXCEPT !.canon = TRUE]]

\* regexp (?i)^\s*ServerName\s+(.+) and (?i)^\s*DocumentRoot\s+(.+)
LocalMatches(line, directive) == line.dir = directive

\* strings.HasPrefix(line, "ServerName"), strings.HasPrefix(line,
\* "DocumentRoot")
RemoteMatches(line, directive) == line.dir = directive /\ line.canon

\* sites[currentServerName] = documentRoot on a map[string]string, the map
\* written as its set of (key, value) pairs.
MapPut(sites, key, root) == {p \in sites : p[1] # key} \cup {<<key, root>>}

\* The scanner loop of ParseApacheConfig from line i on; name is
\* currentServerName ("" before the first name).
RECURSIVE LocalLoop(_, _, _, _)
LocalLoop(text, i, name, sites) ==
    IF i > Len(text) THEN sites
    ELSE IF LocalMatches(text[i], "ServerName")
    THEN LocalLoop(text, i + 1, text[i].val, sites)
    ELSE IF name # "" /\ LocalMatches(text[i], "DocumentRoot")
    THEN LocalLoop(text, i + 1, name, MapPut(sites, name, text[i].val))
    ELSE LocalLoop(text, i + 1, name, sites)

ParseConfigText(text) == LocalLoop(text, 1, "", {})

\* The line loop of gatherSiteInfo over one file; name is
\* currentSite.ServerName, keys is sitesMap written as the set of its keys
\* name:root.  The result is the pair (currentSite.ServerName, sitesMap)
\* after the last line.
RECURSIVE RemoteLoop(_, _, _, _)
RemoteLoop(text, i, name, keys) ==
    IF i > Len(text) THEN <<name, keys>>
    ELSE IF RemoteMatches(text[i], "ServerName")
    THEN RemoteLoop(text, i + 1, text[i].val, keys)
    ELSE IF RemoteMatches(text[i], "DocumentRoot") /\ name # ""
    THEN RemoteLoop(text, i + 1, "", keys \cup {<<name, text[i].val>>})
    ELSE RemoteLoop(text, i + 1, name, keys)

\* The loop of gatherSiteInfo over the configuration files: currentSite and
\* sitesMap are declared before it and live through it.
RECURSIVE RemoteFiles(_, _, _, _)
RemoteFiles(files, k, name, keys) ==
    IF k > Len(files) THEN keys
    ELSE LET r == RemoteLoop(files[k], 1, name, keys)
         IN  RemoteFiles(files, k + 1, r[1], r[2])

GatherFromFiles(files) == RemoteFiles(files, 1, "", {})

\* The text cut into two files after its first split lines.
TwoFiles(text, split) ==
    <<SubSeq(text, 1, split), SubSeq(text, split + 1, Len(text))>>

DsFrame ==
    UNCHANGED <<mainPc, localVars, endpointVars, sbVars, initVars, callerVars,
                closeVars, remoteVars, rotVars, chVars, envVars,
                stepVars>>

\* Both discoveries read the text, and the text in canonical spelling: the
\* local one as the single file httpd.conf, the remote one as two files.
DsParse ==
    /\ dsPc = "idle"
    /\ dsPc' = "parsed"
    /\ dsLocal' = ParseConfigText(dsText)
    /\ dsRemote' = GatherFromFiles(TwoFiles(dsText, dsSplit))
    /\ dsLocalCanon' = ParseConfigText(Canonical(dsText))
    /\ dsRemoteCanon' = GatherFromFiles(TwoFiles(Canonical(dsText), dsSplit))
    /\ UNCHANGED <<dsText, dsSplit>>
    /\ DsFrame

DiscoverNext == DsParse

Texts == UNION {[1..n -> ConfigLines] : n \in 0..MaxLines}

InitDiscover ==
    /\ mainPc = "discover"
    /\ LocalIdle
    /\ NoSSHBackup
    /\ initPc = "idle"
    /\ NoRotation
    /\ NoChange
    /\ NoEnvSearch
    /\ NoSteps
    /\ dsText \in Texts
    /\ dsSplit \in 0..Len(dsText)
    /\ dsPc = "idle"
    /\ dsLocal = {}
    /\ dsRemote = {}
    /\ dsLocalCanon = {}
    /\ dsRemoteCanon = {}

SpecDiscover == InitDiscover /\ [][DiscoverNext]_vars

(***************************************************************************)
(* config.findEnvFile                                                      *)
(***************************************************************************)
\* A path is the sequence of its components below /; a trailing slash is
\* an empty last component.
DirNames == {"site", "public"}

\* filepath.Dir of a cleaned absolute path; the parent of / is /.
Dir(path) == IF path = <<>> THEN path ELSE SubSeq(path, 1, Len(path) - 1)

\* filepath.Abs of an absolute path: filepath.Clean, which drops empty
\* components and so a trailing slash.
Abs(path) == SelectSeq(path, LAMBDA c : c # "")

\* possibleLocations
PossibleLocations ==
    << <<".env">>,
       <<"..", ".env">>,
       <<"..", "..", ".env">>,
       <<"..", "..", "..", ".env">>,
       <<"public", ".env">>,
       <<"public_html", ".env">>,
       <<"html", ".env">>,
       <<"app", ".env">>,
       <<"laravel", ".env">> >>

\* filepath.Join(baseDir, loc): the components of loc applied to baseDir,
\* .. going to the parent.
RECURSIVE Join(_, _)
Join(base, loc) ==
    IF loc = <<>> THEN base
    ELSE Join(IF Head(loc) = ".." THEN Dir(base) ELSE Append(base, Head(loc)),
              Tail(loc))

\* The loop over possibleLocations from the k-th on: the first location
\* that os.Stat finds, <<>> for os.ErrNotExist.
RECURSIVE FirstExisting(_, _, _)
FirstExisting(base, k, files) ==
    IF k > Len(PossibleLocations) THEN <<>>
    ELSE IF Join(base, PossibleLocations[k]) \in files
    THEN <<Join(base, PossibleLocations[k])>>
    ELSE FirstExisting(base, k + 1, files)

\* baseDir: absPath itself only when it ends in a slash, which after
\* filepath.Abs is the case for / alone; else filepath.Dir(absPath).
BaseDir(absPath) == IF absPath = <<>> THEN absPath ELSE Dir(absPath)

\* findEnvFile(startPath) on a host where the paths in files exist.
findEnvFile(startPath, files) ==
    LET absPath == Abs(startPath)
    IN  IF absPath # <<>> /\ absPath[Len(absPath)] = ".env" /\ absPath \in files
        THEN <<absPath>>
        ELSE FirstExisting(BaseDir(absPath), 1, files)

EnvFrame ==
    UNCHANGED <<mainPc, localVars, endpointVars, sbVars, initVars, callerVars,
                closeVars, remoteVars, rotVars, chVars, dsVars,
                stepVars>>

EnvSearch ==
    /\ envPc = "idle"
    /\ envPc' = "returned"
    /\ envFound' = findEnvFile(envRoot, envFiles)
    /\ UNCHANGED <<envRoot, envFiles>>
    /\ EnvFrame

EnvNext == EnvSearch

\* Directories up to one level below the deepest document root.
DirPaths == UNION {[1..n -> DirNames] : n \in 0..(MaxDepth + 1)}

\* The .env files the host may hold.
EnvPaths == {Append(d, ".env") : d \in DirPaths}

\* Document roots as the configuration may give them: a directory, with or
\* without a trailing slash, or the path of an .env file.
StartPaths ==
    LET roots == {d \in DirPaths : Len(d) \in 1..MaxDepth}
    IN  roots \cup {Append(d, "") : d \in roots}
              \cup {Append(d, ".env") : d \in roots}

InitEnv ==
    /\ mainPc = "env"
    /\ LocalIdle
    /\ NoSSHBackup
    /\ initPc = "idle"
    /\ NoRotation
    /\ NoChange
    /\ NoDiscovery
    /\ NoSteps
    /\ envRoot \in StartPaths
    /\ envFiles \in {F \in SUBSET EnvPaths : Cardinality(F) <= MaxEnvFiles}
    /\ envPc = "idle"
    /\ envFound = <<>>

SpecEnv == InitEnv /\ [][EnvNext]_vars

(***************************************************************************)
(* SSHBackup.BackupRemoteSites: the iterations of the loop over the sites, *)
(* NewSSHBackup's authentication methods and copyFileFromRemote            *)
(***************************************************************************)
\* The artifacts below <BaseDir>/<ServerName>: dir is "site" for the
\* directory itself and "database" for its subdirectory, kind is "files"
\* for files_<timestamp>.tar.gz and "db" for db_<timestamp>.sql.gz, day is
\* the date in the name.
Days == {"yesterday", "today"}

LocalArtifacts ==
    [dir : {"site"}, kind : ArtifactKinds, day : Days]
      \cup [dir : {"database"}, kind : {"db"}, day : Days]

\* hasBackupToday: strings.Contains(file.Name(), today) for an entry of
\* os.ReadDir(localDir); the subdirectory is the entry "database".
HasBackupToday(E) == \E e \in E : e.dir = "site" /\ e.day = "today"

\* authMethods of NewSSHBackup, in the order they are offered.
AuthMethods(cfg) ==
    (IF cfg.key THEN <<"key">> ELSE <<>>)
      \o (IF cfg.password THEN <<"password">> ELSE <<>>)

\* The credential copyFileFromRemote hands to scp: sshpass -p Password
\* when a password is set, else -i KeyPath when a key is set.
ScpCredential(cfg) ==
    IF cfg.password THEN "password" ELSE IF cfg.key THEN "key" ELSE "none"

\* The exit status of `mysqldump ... | gzip > file` under sh: the status
\* of the last command of the pipeline.
PipelineStatus(mysqldump, gzip) == gzip

\* cleanOldBackups(site, false) for kind "files" and cleanOldBackups(site,
\* true) for kind "db": of the archives in the site directory, or of the
\* dumps in its database subdirectory, the newest rotMax stay; the other
\* entries are not touched.
RotatedLocal(E, kind) ==
    LET listed(e) == /\ e.kind = kind
                     /\ e.dir = (IF kind = "files" THEN "site" ELSE "database")
    IN  {e \in E :
           \/ ~listed(e)
           \/ e.day = "today"
           \/ Cardinality({x \in E : listed(x)}) <= rotMax[kind]}

StOutside ==
    UNCHANGED <<mainPc, localVars, endpointVars, sbVars, initVars, callerVars,
                closeVars, remoteVars, rotVars, chVars, dsVars, envVars,
                dbVars, pathVars>>

\* The stages of one iteration leave the loop as it is.
StFrame == StOutside /\ UNCHANGED loopVars

\* `continue`, or the end of the loop body.
StEnds(how) ==
    /\ stPc' = "ended"
    /\ stOutcome' = how

\* os.MkdirAll(localDir, 0755)
StLocalDir ==
    /\ stPc = "localDir"
    /\ \/ stPc' = "today" /\ UNCHANGED stOutcome
       \/ StEnds("failed")
    /\ UNCHANGED <<stCfg, stLocal, stChanged, stCreds, stFiles, stDump, stExit,
                   stScp>>
    /\ StFrame

\* files, err := os.ReadDir(localDir): when the directory is read and an
\* entry holds today's date the site is skipped; when ReadDir fails the
\* loop over the entries is not run and hasBackupToday stays false.
StToday ==
    /\ stPc = "today"
    /\ \/ IF HasBackupToday(stLocal)
          THEN StEnds("skipped")
          ELSE stPc' = "change" /\ UNCHANGED stOutcome
       \/ stPc' = "change" /\ UNCHANGED stOutcome
    /\ UNCHANGED <<stCfg, stLocal, stChanged, stCreds, stFiles, stDump, stExit,
                   stScp>>
    /\ StFrame

\* find <root> -type f -mtime -1 ... | wc -l on a new session; an error
\* continues, changedFiles == 0 skips the site.
StChangeCheck ==
    /\ stPc = "change"
    /\ \/ IF stChanged = 0
          THEN StEnds("skipped")
          ELSE stPc' = "remoteDir" /\ UNCHANGED stOutcome
       \/ StEnds("failed")
    /\ UNCHANGED <<stCfg, stLocal, stChanged, stCreds, stFiles, stDump, stExit,
                   stScp>>
    /\ StFrame

\* runCommand("mkdir -p <siteDir>")
StRemoteDir ==
    /\ stPc = "remoteDir"
    /\ \/ stPc' = "tar" /\ UNCHANGED stOutcome
       \/ StEnds("failed")
    /\ UNCHANGED <<stCfg, stLocal, stChanged, stCreds, stFiles, stDump, stExit,
                   stScp>>
    /\ StFrame

\* runCommand("cd <root> && tar ... -czf <siteDir>/files.tar.gz ."): an
\* error continues with the next site.
StTar ==
    /\ stPc = "tar"
    /\ \/ stPc' = "copyFiles" /\ UNCHANGED <<stOutcome, stFiles>>
       \/ StEnds("failed") /\ stFiles' = "failed"
    /\ UNCHANGED <<stCfg, stLocal, stChanged, stCreds, stDump, stExit, stScp>>
    /\ StFrame

\* copyFileFromRemote(<siteDir>/files.tar.gz,
\* <localDir>/files_<timestamp>.tar.gz): an error continues with the next
\* site.  scp writes straight to the local path and nothing removes it
\* after a failure: a copy that broke off leaves a partial file of that
\* name, a copy that never started leaves nothing.
StCopyFiles ==
    /\ stPc = "copyFiles"
    /\ stScp' = ScpCredential(stCfg)
    /\ \/ /\ stLocal' = stLocal \cup
                          {[dir |-> "site", kind |-> "files", day |-> "today"]}
          /\ stFiles' = "copied"
          /\ stPc' = "env"
          /\ UNCHANGED stOutcome
       \/ /\ StEnds("failed")
          /\ stFiles' = "failed"
          /\ stLocal' \in {stLocal,
                            stLocal \cup {[dir |-> "site", kind |-> "files",
                                           day |-> "today"]}}
    /\ UNCHANGED <<stCfg, stChanged, stCreds, stDump, stExit>>
    /\ StFrame

\* cat <root>/.env on a new session (an error of NewSession continues);
\* the dump follows when the output names a database and a user.
StEnv ==
    /\ stPc = "env"
    /\ \/ stPc' = (IF stCreds THEN "dump" ELSE "rotate") /\ UNCHANGED stOutcome
       \/ StEnds("failed")
    /\ UNCHANGED <<stCfg, stLocal, stChanged, stCreds, stFiles, stDump, stExit,
                   stScp>>
    /\ StFrame

\* runCommand("mysqldump ... | gzip > <siteDir>/db.sql.gz"): the session
\* cannot be opened, or the pipeline runs and runCommand returns its status;
\* an error is printed and the iteration goes on to the rotation.
StDump ==
    /\ stPc = "dump"
    /\ \/ /\ stDump' = "failed"
          /\ stPc' = "rotate"
          /\ UNCHANGED stExit
       \/ \E my \in {"ok", "fail"}, gz \in {"ok", "fail"} :
             /\ stExit' = <<my, gz>>
             /\ IF PipelineStatus(my, gz) = "ok"
                THEN stDump' = "made" /\ stPc' = "copyDb"
                ELSE stDump' = "failed" /\ stPc' = "rotate"
    /\ UNCHANGED <<stCfg, stLocal, stChanged, stCreds, stFiles, stScp,
                   stOutcome>>
    /\ StFrame

\* copyFileFromRemote(<siteDir>/db.sql.gz, <localDir>/db_<timestamp>.sql.gz):
\* an error is printed; a copy that broke off leaves a partial file of
\* that name.
StCopyDb ==
    /\ stPc = "copyDb"
    /\ stScp' = ScpCredential(stCfg)
    /\ \/ /\ stLocal' = stLocal \cup
                          {[dir |-> "site", kind |-> "db", day |-> "today"]}
          /\ stDump' = "copied"
       \/ /\ stLocal' \in {stLocal,
                            stLocal \cup {[dir |-> "site", kind |-> "db",
                                           day |-> "today"]}}
          /\ UNCHANGED stDump
    /\ stPc' = "rotate"
    /\ UNCHANGED <<stCfg, stChanged, stCreds, stFiles, stExit, stOutcome>>
    /\ StFrame

\* cleanOldBackups for the archives, then for the dumps: each call either
\* rotates its kind or returns an error, which is a warning and leaves the
\* entries of the kind as they are; then "Successfully backed up".
StRotate ==
    /\ stPc = "rotate"
    /\ \E files \in {stLocal, RotatedLocal(stLocal, "files")} :
          stLocal' \in {files, RotatedLocal(files, "db")}
    /\ StEnds("done")
    /\ UNCHANGED <<stCfg, stChanged, stCreds, stFiles, stDump, stExit, stScp>>
    /\ StFrame

\* localDir := filepath.Join(sb.manager.BaseDir, site.ServerName)
LocalDir(site) == site.name

\* for _, site := range sites: the iteration is over and the loop takes the
\* next site of the slice gatherSiteInfo returned.  Its local directory is
\* the one of the site before when the two have the same ServerName.
StNextSite ==
    /\ stPc = "ended"
    /\ \E s \in stSites :
          /\ stSite' = s
          /\ stSites' = stSites \ {s}
          /\ IF LocalDir(s) = LocalDir(stSite)
             THEN UNCHANGED <<stLocal, stOther>>
             ELSE stLocal' = stOther /\ stOther' = stLocal
    /\ stDone' = stDone \cup
                   {[site |-> stSite, outcome |-> stOutcome, files |-> stFiles]}
    /\ stChanged' \in 0..1
    /\ stCreds' \in BOOLEAN
    /\ stPc' = "localDir"
    /\ stFiles' = "none"
    /\ stDump' = "none"
    /\ stExit' = <<>>
    /\ stScp' = "none"
    /\ stOutcome' = "none"
    /\ UNCHANGED stCfg
    /\ StOutside

SiteNext ==
    \/ StNextSite
    \/ StLocalDir
    \/ StToday
    \/ StChangeCheck
    \/ StRemoteDir
    \/ StTar
    \/ StCopyFiles
    \/ StEnv
    \/ StDump
    \/ StCopyDb
    \/ StRotate

\* The sites gatherSiteInfo can return: sitesMap is keyed by
\* "<ServerName>:<DocumentRoot>", so they differ in the name or in the root.
DiscoveredSites == [name : ServerNames, root : DocumentRoots]

DiscoveredSets ==
    {S \in SUBSET DiscoveredSites : Cardinality(S) \in 1..MaxSites}

InitSite ==
    /\ mainPc = "site"
    /\ LocalIdle
    /\ NoSSHBackup
    /\ initPc = "idle"
    /\ rotDir = <<>>
    /\ \E k \in 1..MaxKept : rotMax = [x \in ArtifactKinds |-> k]
    /\ rotPc = "idle"
    /\ rotKind = "files"
    /\ rotBefore = <<>>
    /\ NoChange
    /\ NoDiscovery
    /\ NoEnvSearch
    /\ NoDump
    /\ NoPaths
    /\ stCfg \in {c \in [key : BOOLEAN, password : BOOLEAN] :
                    c.key \/ c.password}
    /\ stLocal \in SUBSET LocalArtifacts
    /\ stChanged \in 0..1
    /\ stCreds \in BOOLEAN
    /\ stPc = "localDir"
    /\ stFiles = "none"
    /\ stDump = "none"
    /\ stExit = <<>>
    /\ stScp = "none"
    /\ stOutcome = "none"
    /\ \E S \in DiscoveredSets : \E s \in S :
          /\ stSite = s
          /\ stSites = S \ {s}
    /\ stOther \in {{}, {[dir |-> "site", kind |-> "files", day |-> "today"]}}
    /\ stDone = {}

SpecSite == InitSite /\ [][SiteNext]_vars

(***************************************************************************)
(* DBBackup.BackupDatabase                                                 *)
(***************************************************************************)
\* A dump in the site's database directory: stamp is the timestamp of its
\* name db_<timestamp>.sql.gz, content what the file holds: "empty" after
\* os.Create, "truncated" when the pipeline broke off, "complete".
NewDump(content) == [stamp |-> Format(dbNow, 0), content |-> content]

\* os.Create(backupFile) and the writes of gzip into the file: the file of
\* this run's name holds content.
WithDump(D, content) ==
    {e \in D : e.stamp # Format(dbNow, 0)} \cup {NewDump(content)}

\* cleanOldBackups(siteName, true): the k newest dumps stay.
RotatedDumps(D, k) ==
    {e \in D : Cardinality({x \in D : x.stamp > e.stamp}) < k}

DbFrame ==
    UNCHANGED <<mainPc, localVars, endpointVars, sbVars, initVars, callerVars,
                closeVars, remoteVars, rotVars, chVars, dsVars, envVars,
                stVars, loopVars, pathVars>>

\* Time passes between two runs.
DbTick ==
    /\ dbPc = "idle"
    /\ dbNow < MaxNow
    /\ dbNow' = dbNow + 1
    /\ UNCHANGED <<dbDir, dbPc, dbFailed, dbRes, dbRuns>>
    /\ DbFrame

\* BackupDatabase returns an error from the step named.
DbReturnsErr(step) ==
    /\ dbFailed' = step
    /\ dbRes' = "err"
    /\ dbPc' = "idle"

\* BackupDatabase is called: os.MkdirAll(dbBackupDir, 0755).
DbMkdir ==
    /\ dbPc = "idle"
    /\ dbRuns < MaxRuns
    /\ dbRuns' = dbRuns + 1
    /\ \/ dbPc' = "create" /\ dbFailed' = "none" /\ UNCHANGED dbRes
       \/ DbReturnsErr("mkdir")
    /\ UNCHANGED <<dbNow, dbDir>>
    /\ DbFrame

\* os.Create(backupFile): the destination file exists, empty, from here on.
DbCreate ==
    /\ dbPc = "create"
    /\ \/ /\ dbDir' = WithDump(dbDir, "empty")
          /\ dbPc' = "start"
          /\ UNCHANGED <<dbFailed, dbRes>>
       \/ DbReturnsErr("create") /\ UNCHANGED dbDir
    /\ UNCHANGED <<dbNow, dbRuns>>
    /\ DbFrame

\* cmd.StdoutPipe() and gzip.Start()
DbStartGzip ==
    /\ dbPc = "start"
    /\ \/ dbPc' = "dump" /\ UNCHANGED <<dbFailed, dbRes>>
       \/ DbReturnsErr("start")
    /\ UNCHANGED <<dbNow, dbDir, dbRuns>>
    /\ DbFrame

\* cmd.Run() of mysqldump: when it fails BackupDatabase returns and gzip
\* compresses what it was sent.
DbRunDump ==
    /\ dbPc = "dump"
    /\ \/ dbPc' = "wait" /\ UNCHANGED <<dbFailed, dbRes, dbDir>>
       \/ DbReturnsErr("dump") /\ dbDir' = WithDump(dbDir, "truncated")
    /\ UNCHANGED <<dbNow, dbRuns>>
    /\ DbFrame

\* gzip.Wait()
DbWaitGzip ==
    /\ dbPc = "wait"
    /\ \/ /\ dbDir' = WithDump(dbDir, "complete")
          /\ dbPc' = "clean"
          /\ UNCHANGED <<dbFailed, dbRes>>
       \/ DbReturnsErr("gzip") /\ dbDir' = WithDump(dbDir, "truncated")
    /\ UNCHANGED <<dbNow, dbRuns>>
    /\ DbFrame

\* cleanOldBackups(siteName, true), whose error BackupDatabase returns.
DbClean ==
    /\ dbPc = "clean"
    /\ \/ /\ dbDir' = RotatedDumps(dbDir, rotMax["db"])
          /\ dbRes' = "nil"
          /\ dbPc' = "idle"
          /\ UNCHANGED dbFailed
       \/ DbReturnsErr("clean") /\ UNCHANGED dbDir
    /\ UNCHANGED <<dbNow, dbRuns>>
    /\ DbFrame

DumpNext ==
    \/ DbTick
    \/ DbMkdir
    \/ DbCreate
    \/ DbStartGzip
    \/ DbRunDump
    \/ DbWaitGzip
    \/ DbClean

InitDump ==
    /\ mainPc = "dump"
    /\ LocalIdle
    /\ NoSSHBackup
    /\ initPc = "idle"
    /\ rotDir = <<>>
    /\ \E k \in 1..MaxKept :
          rotMax = [x \in ArtifactKinds |-> IF x = "db" THEN k ELSE 1]
    /\ rotPc = "idle"
    /\ rotKind = "files"
    /\ rotBefore = <<>>
    /\ NoChange
    /\ NoDiscovery
    /\ NoEnvSearch
    /\ NoSite
    /\ NoPaths
    /\ dbNow = 0
    /\ dbDir \in SUBSET {[stamp |-> 0 - 1, content |-> "complete"]}
    /\ dbPc = "idle"
    /\ dbFailed = "none"
    /\ dbRes = "none"
    /\ dbRuns = 0

SpecDump == InitDump /\ [][DumpNext]_vars

Init ==
    /\ mainPc = "parse"
    /\ LocalIdle
    /\ NoSSHBackup
    /\ initPc = "idle"
    /\ NoPure

Next == LocalNext \/ RemoteNext

Spec == Init /\ [][Next]_vars

\* The local phase alone, main and its goroutines, up to the return of
\* performLocalBackups.  The Go scheduler runs a goroutine that can take a
\* step: as long as one can, a step is taken.
FairLocal == Init /\ [][LocalNext]_vars /\ WF_vars(LocalNext)

(***************************************************************************)
(* The backup root during one performLocalBackups                          *)
(***************************************************************************)
\* The server names of the sites map: its keys, so they differ.
PathSites == {"a.test", "b.test"}

PathUnits == PathSites \X Kinds

\* A variant in which every site is backed up into the backup root itself.
SiteDir_Flat(s) == <<>>

\* filepath.Join(fb.manager.BaseDir, siteName): the directory of a site
\* under the backup root.  A path under the backup root is the sequence of
\* its names.
SiteDir(s) == <<s>>

\* filepath.Join(backupDir, fmt.Sprintf("temp_%d", time.Now().UnixNano()))
TempDir(s) == Append(SiteDir(s), "temp_")

\* filepath.Join(backupDir, fmt.Sprintf("files_%s.tar.gz", timestamp)) for
\* the archive of this run ("now") and for one an earlier run left ("old").
ArchivePath(s, when) ==
    Append(SiteDir(s), IF when = "now" THEN "files_now" ELSE "files_old")

\* db.manager.getDBBackupDir(siteName): the site's subdirectory database, or
\* the site's directory itself.
getDBBackupDir(s) ==
    IF pLayout = "database" THEN Append(SiteDir(s), "database") ELSE SiteDir(s)

\* filepath.Join(dbBackupDir, fmt.Sprintf("db_%s.sql.gz", timestamp))
DumpPath(s, when) ==
    Append(getDBBackupDir(s), IF when = "now" THEN "db_now" ELSE "db_old")

\* The path and the directories above it, up to the backup root.
Prefixes(p) == {SubSeq(p, 1, n) : n \in 1..Len(p)}

\* The path and what is below it.
Below(p) ==
    {q \in pFs : Len(q) >= Len(p) /\ SubSeq(q, 1, Len(p)) = p}

\* What a call does to the backup root: the paths that exist after it and
\* the paths it created, wrote or deleted.
\* A call that changes nothing (a read, or a call that failed).
NoEffect == [fs |-> pFs, touched |-> {}]

\* os.MkdirAll(p): the directories of the path that are missing are
\* created; on a directory that exists it does nothing.
MkdirAll(p) == [fs |-> pFs \cup Prefixes(p), touched |-> Prefixes(p) \ pFs]

\* os.Create(p): the file is created, or truncated when it exists.
Create(p) == [fs |-> pFs \cup {p}, touched |-> {p}]

\* os.RemoveAll(p), os.Remove(p): the path and what is below it are gone.
RemoveAll(p) == [fs |-> pFs \ Below(p), touched |-> Below(p)]

PathFrame ==
    UNCHANGED <<mainPc, localVars, endpointVars, sbVars, initVars, callerVars,
                closeVars, remoteVars, rotVars, chVars, dsVars, envVars,
                dbVars, stVars, loopVars>>

\* A unit goes on from one position to another with a call.
UnitStep(u, from, to, call) ==
    /\ pPc[u] = from
    /\ pPc' = [pPc EXCEPT ![u] = to]
    /\ pFs' = call.fs
    /\ pTouched' = [pTouched EXCEPT ![u] = @ \cup call.touched]
    /\ UNCHANGED pLayout
    /\ PathFrame

\* compareWithLastBackup: os.ReadDir(backupDir) and the search for the
\* latest backup.  A missing directory or no backup in it: changed; another
\* error is returned; else the comparison follows.
CompareReadDir(s) ==
    \E to \in {"done"} \cup
              (IF SiteDir(s) \in pFs /\ ArchivePath(s, "old") \in pFs
               THEN {"mkTemp"} ELSE {"mkdir"}) :
       UnitStep(<<s, "file">>, "readDir", to, NoEffect)

\* os.MkdirAll(tempDir, 0755); an error is returned.
CompareMkTemp(s) ==
    \/ UnitStep(<<s, "file">>, "mkTemp", "extract", MkdirAll(TempDir(s)))
    \/ UnitStep(<<s, "file">>, "mkTemp", "done", NoEffect)

\* fb.extractArchive(latestBackupPath, tempDir): the files of the archive
\* are written below the scratch directory.
CompareExtract(s) ==
    \E call \in {NoEffect, Create(Append(TempDir(s), "index.php"))} :
       UnitStep(<<s, "file">>, "extract", "return", call)

\* compareWithLastBackup returns (an error, unchanged, or changed) and the
\* deferred os.RemoveAll(tempDir) runs.
CompareReturns(s) ==
    \E to \in {"done", "mkdir"} :
       UnitStep(<<s, "file">>, "return", to, RemoveAll(TempDir(s)))

\* BackupFiles: os.MkdirAll(backupDir, 0755); an error is returned.
FilesMkdir(s) ==
    \/ UnitStep(<<s, "file">>, "mkdir", "create", MkdirAll(SiteDir(s)))
    \/ UnitStep(<<s, "file">>, "mkdir", "done", NoEffect)

\* createArchive: os.Create(targetFile) fails, or the file is there and
\* the archive is written, completely or not.
FilesCreate(s) ==
    \/ UnitStep(<<s, "file">>, "create", "done", NoEffect)
    \/ \E to \in {"done", "rotate"} :
          UnitStep(<<s, "file">>, "create", to, Create(ArchivePath(s, "now")))

\* fb.manager.cleanOldBackups(siteName, false): the archives beyond the
\* maximum are removed from the site's directory.
FilesRotate(s) ==
    \E call \in {NoEffect, RemoveAll(ArchivePath(s, "old"))} :
       UnitStep(<<s, "file">>, "rotate", "done", call)

\* BackupDatabase: os.MkdirAll(dbBackupDir, 0755); an error is returned.
DumpMkdir(s) ==
    \/ UnitStep(<<s, "database">>, "mkdir", "create",
                MkdirAll(getDBBackupDir(s)))
    \/ UnitStep(<<s, "database">>, "mkdir", "done", NoEffect)

\* os.Create(backupFile) fails, or the file is there and the pipeline
\* writes into it, successfully or not.
DumpCreate(s) ==
    \/ UnitStep(<<s, "database">>, "create", "done", NoEffect)
    \/ \E to \in {"done", "rotate"} :
          UnitStep(<<s, "database">>, "create", to, Create(DumpPath(s, "now")))

\* db.manager.cleanOldBackups(siteName, true): the dumps beyond the maximum
\* are removed from the directory of the dumps.
DumpRotate(s) ==
    \E call \in {NoEffect, RemoveAll(DumpPath(s, "old"))} :
       UnitStep(<<s, "database">>, "rotate", "done", call)

PathsNext ==
    \E s \in PathSites :
       \/ CompareReadDir(s)
       \/ CompareMkTemp(s)
       \/ CompareExtract(s)
       \/ CompareReturns(s)
       \/ FilesMkdir(s)
       \/ FilesCreate(s)
       \/ FilesRotate(s)
       \/ DumpMkdir(s)
       \/ DumpCreate(s)
       \/ DumpRotate(s)

\* What the backup root can hold of a site before the run: nothing, the
\* site's directory, an archive in it, dumps as well.
SiteBefore(s) ==
    {{}, {SiteDir(s)}, {SiteDir(s), ArchivePath(s, "old")},
     {SiteDir(s), ArchivePath(s, "old")} \cup Prefixes(DumpPath(s, "old"))}

\* performLocalBackups has started the goroutines: a file unit for every
\* site, a database unit for the sites with credentials.
InitPaths ==
    /\ mainPc = "paths"
    /\ LocalIdle
    /\ NoSSHBackup
    /\ initPc = "idle"
    /\ NoRotation
    /\ NoChange
    /\ NoDiscovery
    /\ NoEnvSearch
    /\ NoDump
    /\ NoSite
    /\ pLayout \in {"site", "database"}
    /\ \E a \in SiteBefore("a.test"), b \in SiteBefore("b.test") :
          pFs = a \cup b
    /\ pPc \in {pc \in [PathUnits -> {"none", "readDir", "mkdir"}] :
                   \A s \in PathSites :
                      /\ pc[<<s, "file">>] = "readDir"
                      /\ pc[<<s, "database">>] # "readDir"}
    /\ pTouched = [u \in PathUnits |-> {}]

SpecPaths == InitPaths /\ [][PathsNext]_vars

(***************************************************************************)
(* Properties                                                              *)
(***************************************************************************)
\* The units performLocalBackups has started.
StartedUnits == {u \in Units : upc[u] # "none"}

\* C1: in local mode the aggregation loop receives exactly one result per
\* started unit: no result is received twice and, when the loop has ended,
\* the results received are those of the file unit of every site and of the
\* database unit of every site with credentials, none lost.
C1_OneResultPerStartedUnit ==
    /\ \A u \in Units : recv[u] <= 1
    /\ \A u \in Units : recv[u] = 1 => u \in StartedUnits
    /\ mainPc = "report" =>
         /\ StartedUnits = {u \in Units : \/ u[2] = "file" /\ u[1] \in lsites
                                          \/ u[2] = "database" /\ u[1] \in ldb}
         /\ \A u \in StartedUnits : recv[u] = 1
         /\ Cardinality({u \in Units : recv[u] = 1})
              = Cardinality(lsites) + Cardinality(ldb)

\* The loop has ended after two sites ran, one with a database unit and one
\* without.
C1_Witness ==
    /\ mainPc = "report"
    /\ Cardinality(lsites) = 2
    /\ Cardinality(ldb) = 1
    /\ Cardinality({u \in Units : recv[u] = 1}) = 3

\* C2: the result channel is closed only after every started unit has sent
\* its result, and the aggregation loop, once entered, ends (every unit
\* finishes its backup function).
C2_ClosedAfterAllSentAndLoopEnds ==
    /\ [](chanClosed => \A u \in StartedUnits : upc[u] \in {"sent", "done"})
    /\ ((mainPc = "range") ~> (mainPc = "report"))

\* The channel is closed after three units have sent and finished.
C2_Witness ==
    /\ chanClosed
    /\ mainPc = "report"
    /\ Cardinality({u \in Units : upc[u] = "done"}) >= 3

\* C3: a failure for one site never prevents the other sites' units from
\* being attempted.  Local mode: when the aggregation loop has ended, every
\* unit of every site has run and reported, whatever the other units
\* returned.  Remote mode: once the loop over the sites has been entered,
\* BackupRemoteSites returns only after it has started on every site found,
\* whatever stage failed for an earlier one.
C3_FailureDoesNotStopOtherSites ==
    /\ mainPc = "report" =>
         \A s \in lsites :
            /\ ures[<<s, "file">>] # "none" /\ recv[<<s, "file">>] = 1
            /\ s \in ldb =>
                 ures[<<s, "database">>] # "none" /\ recv[<<s, "database">>] = 1
    /\ (mainPc \in {"returnErr", "returnNil"} /\ rvisited # {}) =>
         /\ sitesMap \subseteq rvisited
         /\ \A s \in sitesMap : routcome[s] # "none"

\* The remote loop is working on a site after an earlier site's stage has
\* failed.
C3_Witness ==
    /\ mainPc = "sTar"
    /\ cur # 0
    /\ \E s \in sitesMap \ {cur} : routcome[s] = "failed"

\* C4: after a rotation call for a kind with maximum k at most k artifacts
\* of the kind survive, and they are the k most recently modified ones that
\* existed before the call (all of them when there were at most k): every
\* survivor is unchanged and at least as recent as every deleted artifact,
\* and the artifacts of the other kind are left alone.
C4_RotationKeepsNewest ==
    rotPc = "rotated" =>
      LET before == Matching(rotBefore, rotKind)
          after == Matching(rotDir, rotKind)
          k == rotMax[rotKind]
      IN /\ Cardinality(after) <= k
         /\ Cardinality(after)
              = (IF Cardinality(before) <= k THEN Cardinality(before) ELSE k)
         /\ after \subseteq before
         /\ \A n \in DOMAIN rotDir :
               n \in DOMAIN rotBefore /\ rotDir[n] = rotBefore[n]
         /\ \A n \in after : \A m \in before \ after :
               rotBefore[n].mtime >= rotBefore[m].mtime
         /\ \A n \in DOMAIN rotBefore :
               rotBefore[n].kind # rotKind => n \in DOMAIN rotDir

\* A rotation has deleted an artifact of its kind, kept a more recent one
\* and found an artifact of the other kind in the directory.
C4_Witness ==
    /\ rotPc = "rotated"
    /\ \E m \in Matching(rotBefore, rotKind) \ DOMAIN rotDir :
         \E n \in Matching(rotDir, rotKind) :
            rotBefore[n].mtime > rotBefore[m].mtime
    /\ \E n \in DOMAIN rotBefore : rotBefore[n].kind # rotKind

\* C5: the pool never holds more handles than maxSessions; no handle is in
\* the pool twice, in the pool and checked out, or checked out to two
\* callers; and every handle that is not closed is in the pool or checked
\* out to exactly one caller.
C5_PoolBoundedAndHandlesExclusive ==
    /\ Len(pool) <= maxSessions
    /\ \A i, j \in DOMAIN pool : i # j => pool[i] # pool[j]
    /\ \A k \in Callers : held[k] # 0 =>
         /\ \A i \in DOMAIN pool : pool[i] # held[k]
         /\ \A j \in Callers \ {k} : held[j] # held[k]
    /\ initPc = "ready" =>
         \A id \in DOMAIN handles : handles[id] # "closed" =>
            \/ \E i \in DOMAIN pool : pool[i] = id
            \/ Cardinality({k \in Callers : held[k] = id}) = 1

\* Two callers hold different handles, one of them opened on demand, while
\* the pool holds a handle that came back.
C5_Witness ==
    /\ pool # <<>>
    /\ fresh = 1
    /\ \E j, k \in Callers : j # k /\ held[j] # 0 /\ held[k] # 0

\* C6 (as stated): against an endpoint that tolerates c concurrent channels
\* the capacity test sizes the pool to exactly min(c, 20).
C6_PoolSizedToMinOfLimitAndCeiling ==
    initPc = "ready" =>
      LET expected == IF limit <= ProbeCeiling THEN limit ELSE ProbeCeiling
      IN /\ maxSessions = expected
         /\ poolCap = expected
         /\ Len(pool) = expected

\* C7 (as stated): on an endpoint that refuses more than 3 channels, with
\* the three handles of the probed pool checked out, a further getSession
\* returns a usable handle and no error.
C7_FourthAcquireSucceeds ==
    \A k \in Callers :
       ( /\ limit = 3
         /\ poolCap = 3
         /\ pool = <<>>
         /\ Cardinality({j \in Callers \ {k} : held[j] # 0}) = 3
         /\ cpc[k] \in {"got", "err"} )
       => /\ cpc[k] = "got"
          /\ held[k] # 0
          /\ handles[held[k]] = "open"

\* C8: releaseSession never blocks (a caller that has run its command can
\* always release), and a release puts the handle back into the pool exactly
\* when the pool holds fewer handles than its capacity and closes it
\* otherwise: after the release the handle is in the pool and not closed, or
\* closed and not in the pool.
C8_ReleasePutsBackOrCloses ==
    /\ [](\A k \in Callers : cpc[k] = "ran" => ENABLED CallerRelease(k))
    /\ [][\A k \in Callers :
            (cpc[k] = "ran" /\ cpc'[k] = "idle") =>
              LET id == held[k]
                  inPoolAfter == \E i \in DOMAIN pool' : pool'[i] = id
                  closedAfter == handles'[id] = "closed"
              IN /\ handles[id] # "closed"
                 /\ (Len(pool) < poolCap) => (pool' = Append(pool, id)
                                               /\ handles' = handles)
                 /\ (Len(pool) >= poolCap) => (pool' = pool /\ closedAfter)
                 /\ inPoolAfter # closedAfter]_vars

\* The pool is full and every caller has released, one of them a handle
\* that was opened on demand: one release has closed its handle.
C8_Witness ==
    /\ initPc = "ready"
    /\ closePc = "none"
    /\ fresh = 1
    /\ poolCap > 0
    /\ Len(pool) = poolCap
    /\ \A k \in Callers : cpc[k] = "idle"
    /\ Cardinality({id \in DOMAIN handles : handles[id] # "closed"}) = poolCap
    /\ \E i \in DOMAIN pool : handles[pool[i]] = "used"

\* C9: Close closes every handle of the pool and closes the connection only
\* when the pool is drained; it never blocks and each step of its loop
\* shortens the pool; after a failed initialization, and after every call of
\* Close (the second included), no pooled handle is open.
C9_CloseDrainsThenClosesConnection ==
    /\ [](closePc = "done" =>
            /\ pool = <<>>
            /\ client = "closed"
            /\ \A id \in DOMAIN handles : handles[id] = "closed")
    /\ []((initPc = "ready" /\ client = "closed") => pool = <<>>)
    /\ [](initPc = "envFailed" =>
            /\ pool = <<>>
            /\ client = "closed"
            /\ \A id \in DOMAIN handles : handles[id] = "closed")
    /\ [](closePc = "drain" => ENABLED (CloseDrains \/ CloseClient))
    /\ [][(closePc = "drain" /\ closePc' = "drain") =>
            /\ Len(pool') < Len(pool)
            /\ handles'[Head(pool)] = "closed"
            /\ client' = client]_vars

\* Close has returned for the second time on an SSHBackup whose pool held
\* handles.
C9_Witness ==
    /\ closePc = "done"
    /\ closeCalls = 2
    /\ poolCap = 3
    /\ fresh = 1

\* C10 (as stated): the remote commands of one run all run under the same
\* handle discipline.
C10_OneHandleDiscipline == Cardinality(disc) <= 1

\* compareWithLastBackup has returned to BackupFiles, with a result or with
\* an error.
CompareReturned == chRuns > 0 /\ chPc \in {"idle", "decided"}

\* The archive the last change check compared the tree with is the one
\* BackupFiles wrote last.
AgainstNewest ==
    /\ chLatest # <<>>
    /\ chLatest[1].form = "archive"
    /\ \A e \in chEntries : e.form = "archive" => e.made <= chLatest[1].made

\* C11: when the site's backup directory is missing or holds no entry
\* named files_<valid timestamp>.tar.gz, compareWithLastBackup reports
\* changed = true.
C11_NoPriorArchiveMeansChanged ==
    (CompareReturned /\ chNoPrior) => chCmp = "true"

\* C12: when BackupFiles has created an archive and the source tree has not
\* been modified since, the change check against that archive reports
\* changed = false.
C12_UnmodifiedTreeIsUnchanged ==
    (chPc = "decided" /\ chClean /\ AgainstNewest) => chCmp = "false"

\* C13: the change check reports changed = true whenever a file of the
\* tree has another size than its copy in the last archive or was modified
\* after the moment that archive was created, in every time zone.
C13_LaterModificationIsChanged ==
    (chPc = "decided" /\ AgainstNewest /\
       \E f \in Files :
          /\ chTree[f].present
          /\ \/ chLatest[1].snap[f] # 0 /\ chTree[f].size # chLatest[1].snap[f]
             \/ chTree[f].mtime > chLatest[1].made)
    => chCmp = "true"

\* C14: whenever compareWithLastBackup has returned, with a result or with
\* an error, the scratch directory temp_<n> it created is gone.
C14_ScratchDirectoryGoneOnReturn ==
    chPc \notin {"extract", "walk"} => ~chTemp

\* compareWithLastBackup created its scratch directory, extracted the last
\* archive into it, walked the tree and returned its result.
C14_Witness ==
    /\ chPc = "decided"
    /\ chLatest # <<>>
    /\ Extractable(chLatest[1])
    /\ chCmp \in {"true", "false"}
    /\ ~chTemp

\* Every directive of the text is spelled ServerName, DocumentRoot.
AllCanonical == \A i \in 1..Len(dsText) : dsText[i].canon

\* The text is a sequence of blocks, each a name line followed by its
\* document-root line.
NameRootBlocks ==
    /\ AllCanonical
    /\ Len(dsText) % 2 = 0
    /\ \A i \in 1..Len(dsText) :
          dsText[i].dir = IF i % 2 = 1 THEN "ServerName" ELSE "DocumentRoot"

\* The (name, root) pairs of such a text.
BlockPairs ==
    {<<dsText[i].val, dsText[i + 1].val>> :
        i \in {j \in 1..Len(dsText) : j % 2 = 1}}

\* C15: on a text of name/root blocks both discoveries return exactly the
\* distinct (name, root) pairs: equal pairs collapse, one name with two
\* roots stays two sites.
C15_OneSitePerDistinctPair ==
    (dsPc = "parsed" /\ NameRootBlocks)
    => (dsLocal = BlockPairs /\ dsRemote = BlockPairs)

\* Line i names n, line j > i gives the root r, and between them lies no
\* end of a block and, when the text is read as two files, no end of file.
PairedInBlock(n, r, files) ==
    \E i \in 1..Len(dsText), j \in 1..Len(dsText) :
       /\ i < j
       /\ dsText[i].dir = "ServerName" /\ dsText[i].val = n
       /\ dsText[j].dir = "DocumentRoot" /\ dsText[j].val = r
       /\ \A k \in (i + 1)..(j - 1) : dsText[k].dir # "EndBlock"
       /\ files => ~(i <= dsSplit /\ dsSplit < j)

\* C16: every site was paired inside one block: its name line precedes its
\* root line with no block end between them and, remotely, in one file.
C16_PairedWithinOneBlock ==
    dsPc = "parsed" =>
       /\ \A p \in dsLocal : PairedInBlock(p[1], p[2], FALSE)
       /\ \A p \in dsRemote : PairedInBlock(p[1], p[2], TRUE)

\* Line i names n and the first root line after it gives the root r.
PairedWithFirstRoot(n, r) ==
    \E i \in 1..Len(dsText), j \in 1..Len(dsText) :
       /\ i < j
       /\ dsText[i].dir = "ServerName" /\ dsText[i].val = n
       /\ dsText[j].dir = "DocumentRoot" /\ dsText[j].val = r
       /\ \A k \in (i + 1)..(j - 1) : dsText[k].dir # "DocumentRoot"

\* C17: the name is reset after pairing: every site has the root of the
\* first root line after one of its name lines; a further root line without
\* a new name makes no site and changes no root.
C17_NameResetAfterPairing ==
    (dsPc = "parsed" /\ AllCanonical) =>
       \A p \in dsLocal \cup dsRemote : PairedWithFirstRoot(p[1], p[2])

\* C18: the letter case of the directives makes no difference: each
\* discovery returns for the text what it returns for the canonical
\* spelling of the text.
C18_DirectivesCaseInsensitive ==
    dsPc = "parsed" => (dsLocal = dsLocalCanon /\ dsRemote = dsRemoteCanon)

\* C19: findEnvFile returns the first existing file of the candidate list
\* taken relative to the document root, <documentRoot>/.env first; when
\* none exists it returns os.ErrNotExist.
C19_FirstCandidateFromDocumentRoot ==
    (envPc = "returned" /\ Abs(envRoot)[Len(Abs(envRoot))] # ".env")
    => envFound = FirstExisting(Abs(envRoot), 1, envFiles)

\* The backup function of a unit has been called and has returned.
Attempted(u) == upc[u] \in {"send", "sent", "done"}

\* C20: within one site the file backup is attempted before the database
\* backup: when the database backup of a site has been attempted, so has
\* its file backup.
C20_FileBackupBeforeDatabaseBackup ==
    \A s \in SiteNames :
        Attempted(<<s, "database">>) => Attempted(<<s, "file">>)

\* C21: a failure of one artifact kind fails only that unit: when the file
\* archive or its transfer failed for a site with database credentials,
\* the dump of the site has still been attempted when the iteration ends,
\* and a failed dump leaves the file archive as it was copied.
C21_FailureStaysInItsUnit ==
    stPc = "ended" =>
       /\ (stFiles = "failed" /\ stCreds) => stDump # "none"
       /\ stDump = "failed" => stFiles = "copied"

\* C22: a file archive is at its final path files_<timestamp>.tar.gz only
\* when createArchive completed: between two runs of BackupFiles every
\* archive in the site's backup directory is complete.
C22_NoPartialArchiveAtFinalPath ==
    chPc = "idle" => \A e \in chEntries : e.form = "archive" => e.complete

\* C23: BackupDatabase leaves no destination file behind when the pipeline
\* failed: between two runs every db_<timestamp>.sql.gz in the database
\* directory is a complete dump.
C23_NoTruncatedDumpAtDestination ==
    dbPc = "idle" => \A e \in dbDir : e.content = "complete"

\* C24: a dump whose mysqldump stage or gzip stage failed is reported as
\* failed and is not transferred: in the remote pipeline a failed stage
\* makes the dump step fail.
C24_FailedStageIsReported ==
    (stExit # <<>> /\ (stExit[1] = "fail" \/ stExit[2] = "fail"))
    => stDump = "failed"

\* C25: an error of the retention cleanup after a successful dump is only
\* a warning: BackupDatabase still returns nil.
C25_CleanupErrorIsOnlyWarned ==
    (dbPc = "idle" /\ dbFailed = "clean") => dbRes = "nil"

\* C26: the dump is not gated by the change detection: when the iteration
\* of a site with database credentials ended because no file had changed,
\* the dump of the site has been attempted.
C26_DumpNotGatedByChangeCheck ==
    (stPc = "ended" /\ stOutcome = "skipped" /\ ~HasBackupToday(stLocal)
       /\ stCreds)
    => stDump # "none"

\* C27: in remote mode a site is skipped only when no file changed in the
\* last 24 hours and today's backup exists already.
C27_SkippedOnlyWhenUnchangedAndBackedUpToday ==
    (stPc = "ended" /\ stOutcome = "skipped")
    => (stChanged = 0 /\ HasBackupToday(stLocal))

\* C28: every dump lies in the database subdirectory of the site's backup
\* directory: the dump this iteration copied is there.
C28_DumpsLieInDatabaseSubdirectory ==
    stDump = "copied"
    => [dir |-> "database", kind |-> "db", day |-> "today"] \in stLocal

\* C29: copyFileFromRemote gives scp the credential NewSSHBackup offers
\* first on the primary connection.
C29_ScpUsesFirstOfferedCredential ==
    stScp # "none" => stScp = AuthMethods(stCfg)[1]

\* C30: when the change check reports the site unchanged, BackupFiles
\* creates no artifact, rotates nothing, leaves the site's backup directory
\* as it is and returns nil.
C30_UnchangedSiteIsLeftAlone ==
    [][(chPc = "decided" /\ chCmp = "false")
         => /\ chEntries' = chEntries
            /\ chStatus' = chStatus
            /\ chRes' = "skipped"]_vars

\* BackupFiles has returned from a run whose change check compared the tree
\* with an archive and reported it unchanged.
C30_Witness ==
    /\ chPc = "idle"
    /\ chCmp = "false"
    /\ chRes = "skipped"
    /\ chLatest # <<>>
    /\ chLatest[1] \in chEntries

\* C31: no step of BackupFiles other than retention rotation takes an
\* existing file archive away: an archive present before a step is either
\* still there, unaltered, after it, or its name is gone from the directory
\* (rotation removed it).  An archive whose name is still there with other
\* content was truncated and rewritten by os.Create.
C31_ArchivesGoOnlyByRotation ==
    [][\A e \in chEntries :
         (e.form = "archive" /\ e.complete) =>
            \/ e \in chEntries'
            \/ ~\E x \in chEntries' : x.form = "archive" /\ x.stamp = e.stamp]_vars

AtNewSession ==
    \/ /\ sess = 0
       /\ \/ mainPc \in {"clean", "sChange", "sRemoteDir", "sTar", "sEnv",
                         "sDump"}
          \/ mainPc = "siteLoop" /\ sitesMap \subseteq rvisited
    \/ /\ pool = <<>>
       /\ \/ mainPc = "gFindGet"
          \/ mainPc = "gFile" /\ gIdx <= Len(rconf)
          \/ mainPc = "gEntry" /\ gEntry <= Len(rconf[gIdx])

\* C33: once initializeEnvironment has returned, the command channels of
\* the remote run (sessions idle in the pool, sessions checked out and
\* sessions opened on demand, each until its command has run or it is
\* closed) never outnumber those the endpoint tolerates, the session the
\* run is about to ask the endpoint for included: the run never asks for a
\* channel beyond the endpoint's limit.
C33_SessionsWithinEndpointLimit ==
    initPc = "ready" =>
       /\ ChannelsOpen <= limit
       /\ AtNewSession => ChannelsOpen + 1 <= limit

\* A session opened on demand is open next to the pooled ones, and the
\* endpoint carries as many channels as it tolerates.
C33_Witness ==
    /\ initPc = "ready"
    /\ mainPc \in {"clean", "sChange", "sRemoteDir", "sTar", "sEnv", "sDump",
                   "siteLoop"}
    /\ sess # 0
    /\ handles[sess] = "open"
    /\ \E i \in DOMAIN pool : handles[pool[i]] = "open"
    /\ limit > 1
    /\ ChannelsOpen = limit

\* C34: BackupRemoteSites returns an error only from gatherSiteInfo or from
\* the initial cleanup, before the loop over the sites; once in the loop it
\* returns only through the final cleanup of the remote scratch directory,
\* whatever the sites' outcomes, and a failure of that cleanup is a warning
\* after which it returns nil.
C34_FinalCleanupRunsAndOnlyWarns ==
    [][/\ (mainPc' = "returnErr" /\ mainPc # "returnErr") =>
             mainPc \in {"gFindGet", "clean"}
       /\ (mainPc' = "returnNil" /\ mainPc # "returnNil") =>
             /\ mainPc \in {"siteLoop", "warnClean"}
             /\ sitesMap \subseteq rvisited
       /\ mainPc = "warnClean" => mainPc' = "returnNil"]_vars

\* The final cleanup has failed after a site's stage had failed.
C34_Witness ==
    /\ mainPc = "warnClean"
    /\ \E s \in sitesMap : routcome[s] = "failed"

\* C35: every session gatherSiteInfo gets from getSession can execute the
\* command it is about to run (find, cat of a configuration file, cat of an
\* environment file): it has not run a command before and is not closed.
C35_GatherSessionsCanRun ==
    mainPc \in {"gFindRun", "gCatRun", "gEnvRun"} => CanRun(sess)

\* The tree differs from the archive the change check extracted only by
\* deletions: the archive is one a successful createArchive wrote, a file
\* it holds is gone from the tree, and every file still in the tree is in
\* the archive with the same size and was last written before the archive
\* was made.
DeletedOnly ==
    /\ chLatest # <<>>
    /\ chLatest[1].form = "archive"
    /\ chLatest[1].complete
    /\ \E f \in Files : ~chTree[f].present /\ chLatest[1].snap[f] # 0
    /\ \E f \in Files : chTree[f].present
    /\ \A f \in Files :
          chTree[f].present =>
             /\ chTree[f].size = chLatest[1].snap[f]
             /\ chTree[f].mtime < chLatest[1].made

\* C36: the change check walks the current tree only, so a tree that
\* differs from the last archive solely by deleted files is reported
\* unchanged, and BackupFiles skips the archive.
C36_DeletionsAloneAreUnchanged ==
    [][(chPc = "decided" /\ DeletedOnly)
         => /\ chCmp = "false"
            /\ chRes' = "skipped"
            /\ chEntries' = chEntries]_vars

\* C37: whenever a run of BackupFiles has returned, with or without an
\* error, the site's directory holds at most the configured maximum of
\* entries named files_*.tar.gz.
C37_ArchivesWithinRetentionBound ==
    (chPc = "idle" /\ chRuns > 0) =>
       Cardinality({e \in chEntries : MatchesFiles(e)}) <= rotMax["files"]

\* C38: a later run of BackupFiles can pass its change check against what
\* a failed archive creation left behind: when the newest entry is the
\* partial archive of a failed run, the extraction of the change check can
\* succeed and go on to the comparison.
C38_PartialArchiveDoesNotWedge ==
    (chPc = "extract" /\ chLatest[1].form = "archive" /\ ~chLatest[1].complete)
       => ENABLED (ChExtract /\ chPc' = "walk")

\* C39: a discovered site with changes is not skipped by the
\* today's-backup check on account of the archive the same run copied for
\* another discovered site that has the same server name and another
\* document root.
C39_NoSkipForAnotherSitesArchive ==
    (stPc = "ended" /\ stOutcome = "skipped" /\ HasBackupToday(stLocal)
       /\ stChanged > 0) =>
       ~\E d \in stDone :
           /\ d.site # stSite
           /\ d.site.name = stSite.name
           /\ d.files = "copied"

====
